---- MODULE Spec2Model ----
(***************************************************************************)
(* State-machine model of the proka-kernel virtual file system:            *)
(*   kernel/src/fs/vfs.rs    Vfs facade, mount table, path resolution      *)
(*   kernel/src/fs/memfs.rs  MemVNode / MemFile in-memory backing store    *)
(*   kernel/src/drivers/device.rs  DeviceManager (lookup by major, minor)  *)
(*                                                                         *)
(* Strings are sequences of one-character strings, so that the string      *)
(* functions of the code (split, trim_matches, rsplit_once, starts_with,   *)
(* byte slicing) are computed on characters as the code computes them.     *)
(* Arc<MemVNode> identity is the node's id in the heap `nodes`.            *)
(***************************************************************************)
EXTENDS Integers, Sequences, FiniteSets, TLC

VARIABLES
  nodes,          \* heap of MemVNode: id -> [node_type, entries, data, target, dev, meta]
  next_inode_id,  \* NEXT_INODE_ID
  mounts,         \* Vfs.mounts: sequence of MountPoint [path, mount_point_len, root]
  handles,        \* open MemFile handles: id -> [data_ref, cursor, meta]
  devmgr,         \* DEVICE_MANAGER: [devices, next_minor_counters, free_minors]
  last,           \* the last call made and what it returned
  hung,           \* TRUE once the calling thread spins forever on a lock it holds
  rt,             \* history: the last write to the file and what its handle did next
  thr,            \* threads inside Vfs::mount / Vfs::lookup: their position and guards
  ld,             \* load_cpio: the archive it was given, its position and its result
  bc              \* BlockCache: the blocks of its device and its cache map

vars == <<nodes, next_inode_id, mounts, handles, devmgr, last, hung, rt, thr, ld, bc>>

----------------------------------------------------------------------------
(* Bounds of the model *)

\* creations stop once NEXT_INODE_ID passes this value
MaxNodes == 5
\* at most this many entries in the mount table
MaxMounts == 2
\* at most this many handles are opened in one behaviour
MaxHandles == 2
\* the model's heap holds files of at most this many bytes
MaxFileLen == 3
\* threads that call into the Vfs at the same time
MaxThreads == 2
\* the longest path string handed to normalize_path on its own
MaxPathLen == 6
\* the most entries an archive given to load_cpio has
MaxEntries == 2

(* Program constants *)

\* Vfs::MAX_SYMLINK_DEPTH
MAX_SYMLINK_DEPTH == 8
\* block size used by create_metadata / update_metadata / stat
BLOCK_SIZE == 512
\* id of the node Vfs::new() mounts as the global root (first fetch_add)
ROOT == 1

----------------------------------------------------------------------------
(* String functions of core::str, on sequences of characters *)

RECURSIVE Split(_, _)
\* str::split(c): the segments between occurrences of c, empty ones included
Split(s, c) ==
  IF \A i \in 1..Len(s) : s[i] # c THEN <<s>>
  ELSE LET i == CHOOSE k \in 1..Len(s) : s[k] = c /\ \A j \in 1..(k-1) : s[j] # c
       IN  <<SubSeq(s, 1, i-1)>> \o Split(SubSeq(s, i+1, Len(s)), c)

RECURSIVE TrimStart(_, _)
TrimStart(s, c) ==
  IF s # <<>> /\ Head(s) = c THEN TrimStart(Tail(s), c) ELSE s

RECURSIVE TrimEnd(_, _)
TrimEnd(s, c) ==
  IF s # <<>> /\ s[Len(s)] = c THEN TrimEnd(SubSeq(s, 1, Len(s)-1), c) ELSE s

\* str::trim_matches(c)
TrimMatches(s, c) == TrimEnd(TrimStart(s, c), c)

\* str::rsplit_once(c): None, or (before, after) the last occurrence of c
RsplitOnce(s, c) ==
  IF \A i \in 1..Len(s) : s[i] # c THEN [some |-> FALSE, before |-> <<>>, after |-> <<>>]
  ELSE LET i == CHOOSE k \in 1..Len(s) : s[k] = c /\ \A j \in (k+1)..Len(s) : s[j] # c
       IN  [some |-> TRUE, before |-> SubSeq(s, 1, i-1), after |-> SubSeq(s, i+1, Len(s))]

\* str::starts_with(prefix)
StartsWith(s, p) == Len(p) <= Len(s) /\ SubSeq(s, 1, Len(p)) = p

RECURSIVE Join(_, _)
\* [&str]::join(c)
Join(parts, c) ==
  IF parts = <<>> THEN <<>>
  ELSE IF Len(parts) = 1 THEN parts[1]
  ELSE parts[1] \o <<c>> \o Join(Tail(parts), c)

DOT == <<".">>

RECURSIVE KeepParts(_)
\* .filter(|&s| !s.is_empty() && s != ".") of normalize_path
KeepParts(s) ==
  IF s = <<>> THEN <<>>
  ELSE (IF Head(s) # <<>> /\ Head(s) # DOT THEN <<Head(s)>> ELSE <<>>) \o KeepParts(Tail(s))

DOTDOT == <<".", ".">>

RECURSIVE CleanPartsKeepFirst(_, _)
\* mutant of CleanParts: ".." never pops the first retained segment
CleanPartsKeepFirst(parts, cleaned) ==
  IF parts = <<>> THEN cleaned
  ELSE IF Head(parts) = DOTDOT
       THEN IF Len(cleaned) > 1
            THEN CleanPartsKeepFirst(Tail(parts), SubSeq(cleaned, 1, Len(cleaned)-1))
            ELSE CleanPartsKeepFirst(Tail(parts), cleaned)
       ELSE CleanPartsKeepFirst(Tail(parts), Append(cleaned, Head(parts)))

RECURSIVE CleanParts(_, _)
\* the loop of normalize_path over `parts`, `cleaned` being cleaned_parts
CleanParts(parts, cleaned) ==
  IF parts = <<>> THEN cleaned
  ELSE IF Head(parts) = DOTDOT
       THEN IF cleaned # <<>> /\ cleaned[Len(cleaned)] # <<>>
            THEN CleanParts(Tail(parts), SubSeq(cleaned, 1, Len(cleaned)-1))
            ELSE CleanParts(Tail(parts), cleaned)
       ELSE CleanParts(Tail(parts), Append(cleaned, Head(parts)))

RECURSIVE DropDotDot(_)
DropDotDot(parts) ==
  IF parts = <<>> THEN <<>>
  ELSE (IF Head(parts) # DOTDOT THEN <<Head(parts)>> ELSE <<>>) \o DropDotDot(Tail(parts))

\* mutant of NormalizePath: ".." is dropped like ".", nothing is popped
NormalizePathNoPop(path) ==
  LET cleaned == DropDotDot(KeepParts(Split(path, "/")))
  IN  IF cleaned = <<>> THEN <<"/">> ELSE <<"/">> \o Join(cleaned, "/")

\* Vfs::normalize_path
NormalizePath(path) ==
  LET parts == KeepParts(Split(path, "/"))
      cleaned == CleanParts(parts, <<>>)
  IN  IF cleaned = <<>> THEN <<"/">> ELSE <<"/">> \o Join(cleaned, "/")

\* Vfs::split_path: EmptyPath, or (parent path, name)
SplitPath(path) ==
  LET p == TrimMatches(path, "/")
      r == RsplitOnce(p, "/")
  IN  IF p = <<>> THEN [ok |-> FALSE, err |-> "EmptyPath", parent |-> <<>>, name |-> <<>>]
      ELSE IF r.some
           THEN [ok |-> TRUE, err |-> "",
                 parent |-> (IF r.before = <<>> THEN <<"/">> ELSE r.before),
                 name |-> r.after]
           ELSE [ok |-> TRUE, err |-> "", parent |-> <<"/">>, name |-> p]

----------------------------------------------------------------------------
(* Results *)

\* Ok(value): value is a node id, a byte count or a position
OkR(v) == [kind |-> "Ok", val |-> v, err |-> "None"]
\* Err(VfsError)
ErrR(e) == [kind |-> "Err", val |-> 0, err |-> e]
\* the call never returns: it spins on spin::Mutex::lock of a lock it already holds
HangR == [kind |-> "Hang", val |-> 0, err |-> "None"]

\* a call's outcome: its result, the heap and NEXT_INODE_ID after it
Out(res, ns, nx) == [res |-> res, nodes |-> ns, next |-> nx]
Same(res) == Out(res, nodes, next_inode_id)

----------------------------------------------------------------------------
(* Device Manager (kernel/src/drivers/device.rs) *)

U16_MAX == 65535

\* DeviceManager::get_device_by_major_minor: the first device with that pair
GetDeviceByMajorMinor(major, minor) ==
  LET ds == devmgr.devices
      hit == {i \in 1..Len(ds) : ds[i].major = major /\ ds[i].minor = minor}
  IN  IF hit = {} THEN 0 ELSE CHOOSE i \in hit : \A j \in hit : i <= j

\* DeviceManager::get_device: the first device with that name
GetDevice(name) ==
  LET ds == devmgr.devices
      hit == {i \in 1..Len(ds) : ds[i].name = name}
  IN  IF hit = {} THEN 0 ELSE CHOOSE i \in hit : \A j \in hit : i <= j

\* BTreeMap<u16, u16> next_minor_counters, as a set of <<major, counter>>
CounterOf(dm, major) ==
  IF \E e \in dm.next_minor_counters : e[1] = major
  THEN (CHOOSE e \in dm.next_minor_counters : e[1] = major)[2]
  ELSE 0

SetCounter(dm, major, v) ==
  {e \in dm.next_minor_counters : e[1] # major} \cup {<<major, v>>}

\* DeviceManager::update_minor_counter (minor + 1 is u16 arithmetic)
UpdateMinorCounter(dm, major, minor) ==
  IF minor >= CounterOf(dm, major)
  THEN [dm EXCEPT !.next_minor_counters = SetCounter(dm, major, (minor + 1) % (U16_MAX + 1))]
  ELSE [dm EXCEPT !.next_minor_counters = SetCounter(dm, major, CounterOf(dm, major))]

\* u16::checked_add(1).unwrap_or(0)
NextMinor(m) == IF m = U16_MAX THEN 0 ELSE m + 1

RECURSIVE ScanMinor(_, _, _, _)
\* the for loop of alloc_device_number: the first unused minor from `cur` on
ScanMinor(dm, major, cur, tries) ==
  IF tries = 0 THEN -1
  ELSE IF \E i \in 1..Len(dm.devices) :
            dm.devices[i].major = major /\ dm.devices[i].minor = cur
       THEN ScanMinor(dm, major, NextMinor(cur), tries - 1)
       ELSE cur

\* the stack free_minors[major], as a sequence (top last)
FreeOf(dm, major) ==
  IF \E e \in dm.free_minors : e[1] = major
  THEN (CHOOSE e \in dm.free_minors : e[1] = major)[2]
  ELSE <<>>

\* DeviceManager::alloc_device_number: [ok, major, minor, dm]
AllocDeviceNumber(dm, dtype) ==
  LET major == IF dtype = "Char" THEN 1 ELSE 2
      free == FreeOf(dm, major)
  IN  IF free # <<>>
      THEN [ok |-> TRUE, major |-> major, minor |-> free[Len(free)],
            dm |-> [dm EXCEPT !.free_minors =
                      {e \in dm.free_minors : e[1] # major}
                        \cup {<<major, SubSeq(free, 1, Len(free) - 1)>>}]]
      ELSE LET m == ScanMinor(dm, major, CounterOf(dm, major), U16_MAX)
           IN  IF m = -1
               THEN [ok |-> FALSE, major |-> major, minor |-> 0,
                     dm |-> [dm EXCEPT !.next_minor_counters =
                               SetCounter(dm, major, CounterOf(dm, major))]]
               ELSE [ok |-> TRUE, major |-> major, minor |-> m,
                     dm |-> [dm EXCEPT !.next_minor_counters =
                               SetCounter(dm, major, NextMinor(m))]]

\* DeviceManager::register_device: [res, dm]
RegisterDeviceOp(dm, dev) ==
  IF \E i \in 1..Len(dm.devices) : dm.devices[i].name = dev.name
  THEN [res |-> ErrR("DeviceAlreadyRegistered"), dm |-> dm]
  ELSE IF dev.major = 0 /\ dev.minor = 0
       THEN LET a == AllocDeviceNumber(dm, dev.dtype)
            IN  IF ~a.ok THEN [res |-> ErrR("OutOfMemory"), dm |-> a.dm]
                ELSE [res |-> OkR(0),
                      dm |-> [a.dm EXCEPT !.devices =
                                Append(@, [dev EXCEPT !.major = a.major, !.minor = a.minor])]]
       ELSE IF \E i \in 1..Len(dm.devices) :
                 dm.devices[i].major = dev.major /\ dm.devices[i].minor = dev.minor
            THEN [res |-> ErrR("DeviceNumberConflict"), dm |-> dm]
            ELSE [res |-> OkR(0),
                  dm |-> [UpdateMinorCounter(dm, dev.major, dev.minor)
                            EXCEPT !.devices = Append(@, dev)]]

\* Vec::remove(index)
RemoveAt(seq, i) == SubSeq(seq, 1, i - 1) \o SubSeq(seq, i + 1, Len(seq))

\* Device::is_open: open_count > 0.  open_count is an AtomicUsize; the model keeps it as
\* the representative nearest to 0 of its residue modulo 2^64, so that usize::MAX, what
\* fetch_sub(1) leaves of 0, is written USIZE_MAX = -1, and "> 0" is "not 0"
IsOpen(d) == d.open_count # 0

\* DeviceManager::unregister_device with reclaim_device_number: [res, dm]
UnregisterDeviceOp(dm, name) ==
  LET hit == {i \in 1..Len(dm.devices) : dm.devices[i].name = name}
  IN  IF hit = {} THEN [res |-> ErrR("NoSuchDevice"), dm |-> dm]
      ELSE LET index == CHOOSE i \in hit : \A j \in hit : i <= j
               d == dm.devices[index]
           IN  IF IsOpen(d) THEN [res |-> ErrR("DeviceStillInUse"), dm |-> dm]
               ELSE [res |-> OkR(0),
                     dm |-> [dm EXCEPT !.devices = RemoveAt(@, index),
                                       !.free_minors =
                                          {e \in @ : e[1] # d.major}
                                            \cup {<<d.major, Append(FreeOf(dm, d.major), d.minor)>>}]]

\* the device init_devices() registers: SerialDevice::create_device(1, 0, 0x3f8)
SerialDev == [name |-> "serial", major |-> 1, minor |-> 0, dtype |-> "Char", open_count |-> 0]

----------------------------------------------------------------------------
(* MemVNode (kernel/src/fs/memfs.rs) *)

\* u64::div_ceil
DivCeil(a, b) == (a + b - 1) \div b

\* create_metadata: the fields the model keeps (size, blocks; the rest is constant)
CreateMetadata(size) == [size |-> size, blocks |-> DivCeil(size, BLOCK_SIZE)]

NoDev == [major |-> 0, minor |-> 0, dtype |-> "None"]

\* MemVNode::new for each MemNodeContent variant
NewFile == [node_type |-> "File", entries |-> {}, data |-> <<>>, target |-> <<>>,
            dev |-> NoDev, meta |-> CreateMetadata(0)]
NewDir == [node_type |-> "Dir", entries |-> {}, data |-> <<>>, target |-> <<>>,
           dev |-> NoDev, meta |-> CreateMetadata(0)]
NewSymLink(t) == [node_type |-> "SymLink", entries |-> {}, data |-> <<>>, target |-> t,
                  dev |-> NoDev, meta |-> CreateMetadata(Len(t))]
NewDevice(major, minor, dtype) ==
  [node_type |-> "Device", entries |-> {}, data |-> <<>>, target |-> <<>>,
   dev |-> [major |-> major, minor |-> minor, dtype |-> dtype], meta |-> CreateMetadata(0)]

\* BTreeMap::contains_key on a directory's entries (a set of <<name, id>>)
ContainsKey(id, name) == \E e \in nodes[id].entries : e[1] = name
\* BTreeMap::get
GetEntry(id, name) == (CHOOSE e \in nodes[id].entries : e[1] = name)[2]

\* entries.insert(name, new_node) of a freshly allocated node
InsertNew(dir, name, node) ==
  Out(OkR(next_inode_id),
      (next_inode_id :> node) @@ [nodes EXCEPT ![dir].entries = @ \cup {<<name, next_inode_id>>}],
      next_inode_id + 1)

\* mutant of NodeLookup: a lookup in a node that is no directory finds nothing
NodeLookupInFileNotFound(id, name) ==
  IF nodes[id].node_type = "Dir" /\ ContainsKey(id, name)
  THEN OkR(GetEntry(id, name))
  ELSE ErrR("NotFound")

\* MemVNode::lookup
NodeLookup(id, name) ==
  IF nodes[id].node_type = "Dir"
  THEN IF ContainsKey(id, name) THEN OkR(GetEntry(id, name)) ELSE ErrR("NotFound")
  ELSE ErrR("NotADirectory")

\* mutant of NodeCreate: a link or device node is made for the types SymLink and Device
NodeCreateAnyType(id, name, typ) ==
  IF nodes[id].node_type # "Dir" THEN Same(ErrR("NotADirectory"))
  ELSE IF ContainsKey(id, name) THEN Same(ErrR("AlreadyExists"))
  ELSE IF typ = "File" THEN InsertNew(id, name, NewFile)
  ELSE IF typ = "Dir" THEN InsertNew(id, name, NewDir)
  ELSE IF typ = "SymLink" THEN InsertNew(id, name, NewSymLink(<<>>))
  ELSE InsertNew(id, name, NewDevice(0, 0, "Char"))

\* MemVNode::create
NodeCreate(id, name, typ) ==
  IF nodes[id].node_type # "Dir" THEN Same(ErrR("NotADirectory"))
  ELSE IF ContainsKey(id, name) THEN Same(ErrR("AlreadyExists"))
  ELSE IF typ = "File" THEN InsertNew(id, name, NewFile)
  ELSE IF typ = "Dir" THEN InsertNew(id, name, NewDir)
  ELSE Same(ErrR("NotImplemented"))

\* MemVNode::create_device
NodeCreateDevice(id, name, major, minor, dtype) ==
  IF nodes[id].node_type # "Dir" THEN Same(ErrR("NotADirectory"))
  ELSE IF ContainsKey(id, name) THEN Same(ErrR("AlreadyExists"))
  ELSE IF GetDeviceByMajorMinor(major, minor) = 0 THEN Same(ErrR("DeviceNotFound"))
  ELSE InsertNew(id, name, NewDevice(major, minor, dtype))

\* mutant of NodeCreateSymlink: no contains_key check, an existing entry is replaced
NodeCreateSymlinkOverwrite(id, name, target) ==
  IF nodes[id].node_type # "Dir" THEN Same(ErrR("NotADirectory"))
  ELSE Out(OkR(next_inode_id),
           (next_inode_id :> NewSymLink(target))
             @@ [nodes EXCEPT ![id].entries =
                   {e \in @ : e[1] # name} \cup {<<name, next_inode_id>>}],
           next_inode_id + 1)

\* MemVNode::create_symlink
NodeCreateSymlink(id, name, target) ==
  IF nodes[id].node_type # "Dir" THEN Same(ErrR("NotADirectory"))
  ELSE IF ContainsKey(id, name) THEN Same(ErrR("AlreadyExists"))
  ELSE InsertNew(id, name, NewSymLink(target))

\* ids something still holds an Arc to besides directory entries: the Vfs, the mount
\* table, open files, and the arguments and the local of a running move_node
Pinned == {ROOT} \cup {mounts[i].root : i \in 1..Len(mounts)}
            \cup {handles[h].data_ref : h \in DOMAIN handles}
            \cup UNION {{thr[t].mv.src, thr[t].mv.dst, thr[t].mv.node} : t \in DOMAIN thr}

\* dropping an entry drops one Arc: the node goes when nothing else holds it
DropEntry(dir, name) ==
  LET child == GetEntry(dir, name)
      ns == [nodes EXCEPT ![dir].entries = @ \ {<<name, child>>}]
      held == child \in Pinned
                \/ \E d \in DOMAIN ns : \E e \in ns[d].entries : e[2] = child
  IN  IF held THEN ns ELSE [d \in (DOMAIN ns) \ {child} |-> ns[d]]

\* mutant of NodeRemove: the emptiness check of a child directory is missing
NodeRemoveNoEmptyCheck(id, name) ==
  IF nodes[id].node_type # "Dir" THEN Same(ErrR("NotADirectory"))
  ELSE IF ~ContainsKey(id, name) THEN Same(ErrR("NotFound"))
  ELSE Out(OkR(0), DropEntry(id, name), next_inode_id)

\* mutant of NodeRemove: the bytes of a removed file are released with its entry
NodeRemoveClearsData(id, name) ==
  IF nodes[id].node_type # "Dir" THEN Same(ErrR("NotADirectory"))
  ELSE IF ~ContainsKey(id, name) THEN Same(ErrR("NotFound"))
  ELSE IF nodes[GetEntry(id, name)].node_type = "Dir"
          /\ nodes[GetEntry(id, name)].entries # {}
       THEN Same(ErrR("DirectoryNotEmpty"))
  ELSE LET ns == DropEntry(id, name)
       IN  Out(OkR(0),
               [d \in DOMAIN ns |-> IF d = GetEntry(id, name)
                                    THEN [ns[d] EXCEPT !.data = <<>>] ELSE ns[d]],
               next_inode_id)

\* MemVNode::remove
NodeRemove(id, name) ==
  IF nodes[id].node_type # "Dir" THEN Same(ErrR("NotADirectory"))
  ELSE IF ~ContainsKey(id, name) THEN Same(ErrR("NotFound"))
  ELSE IF nodes[GetEntry(id, name)].node_type = "Dir"
          /\ nodes[GetEntry(id, name)].entries # {}
       THEN Same(ErrR("DirectoryNotEmpty"))
  ELSE Out(OkR(0), DropEntry(id, name), next_inode_id)

\* mutant of NodeRename: no contains_key(new_name) check, an entry under the new name
\* is replaced
NodeRenameOverwrite(id, old_name, new_name) ==
  IF nodes[id].node_type # "Dir" THEN Same(ErrR("NotADirectory"))
  ELSE IF ~ContainsKey(id, old_name) THEN Same(ErrR("NotFound"))
  ELSE LET node == GetEntry(id, old_name)
       IN  Out(OkR(0),
               [nodes EXCEPT ![id].entries =
                  ({e \in @ : e[1] # old_name /\ e[1] # new_name}) \cup {<<new_name, node>>}],
               next_inode_id)

\* MemVNode::rename
NodeRename(id, old_name, new_name) ==
  IF nodes[id].node_type # "Dir" THEN Same(ErrR("NotADirectory"))
  ELSE IF ~ContainsKey(id, old_name) THEN Same(ErrR("NotFound"))
  ELSE IF ContainsKey(id, new_name) THEN Same(ErrR("AlreadyExists"))
  ELSE LET node == GetEntry(id, old_name)
       IN  Out(OkR(0),
               [nodes EXCEPT ![id].entries = (@ \ {<<old_name, node>>}) \cup {<<new_name, node>>}],
               next_inode_id)

\* MemVNode::move_node: the entry leaves the source directory, then enters the target
MoveNode(source_parent, target_parent, old_name, new_name) ==
  IF nodes[source_parent].node_type # "Dir" THEN Same(ErrR("NotADirectory"))
  ELSE IF nodes[target_parent].node_type # "Dir" THEN Same(ErrR("NotADirectory"))
  ELSE IF ~ContainsKey(source_parent, old_name) THEN Same(ErrR("NotFound"))
  ELSE IF ContainsKey(target_parent, new_name) THEN Same(ErrR("AlreadyExists"))
  ELSE LET node_to_move == GetEntry(source_parent, old_name)
           removed == [nodes EXCEPT ![source_parent].entries = @ \ {<<old_name, node_to_move>>}]
       IN  Out(OkR(0),
               [removed EXCEPT ![target_parent].entries = @ \cup {<<new_name, node_to_move>>}],
               next_inode_id)

\* MemVNode::read_dir: [res, names], the keys of the directory's entries
NodeReadDir(id) ==
  IF nodes[id].node_type = "Dir"
  THEN [res |-> OkR(0), names |-> {e[1] : e \in nodes[id].entries}]
  ELSE [res |-> ErrR("NotADirectory"), names |-> {}]

\* MemVNode::read_symlink
ReadSymlink(id) ==
  IF nodes[id].node_type = "SymLink" THEN nodes[id].target ELSE <<>>


----------------------------------------------------------------------------
(* Path resolution (kernel/src/fs/vfs.rs) *)

\* mutant of SelectMount: min_by_key in place of max_by_key
SelectMountShortest(p) ==
  LET match == {i \in 1..Len(mounts) : StartsWith(p, mounts[i].path)}
  IN  IF match = {} THEN 0
      ELSE CHOOSE i \in match :
             \A j \in match :
               \/ mounts[j].mount_point_len > mounts[i].mount_point_len
               \/ (mounts[j].mount_point_len = mounts[i].mount_point_len /\ i <= j)

\* mutant of SelectMount: of several matching mounts of maximal length the first
\* registered is taken
SelectMountFirst(p) ==
  LET match == {i \in 1..Len(mounts) : StartsWith(p, mounts[i].path)}
  IN  IF match = {} THEN 0
      ELSE CHOOSE i \in match :
             \A j \in match :
               \/ mounts[j].mount_point_len < mounts[i].mount_point_len
               \/ (mounts[j].mount_point_len = mounts[i].mount_point_len /\ i <= j)

\* mounts.iter().filter(|m| path.starts_with(&m.path)).max_by_key(|m| m.mount_point_len):
\* the index of the last mount of maximal length among the matching ones, 0 for None
SelectMount(p) ==
  LET match == {i \in 1..Len(mounts) : StartsWith(p, mounts[i].path)}
  IN  IF match = {} THEN 0
      ELSE CHOOSE i \in match :
             \A j \in match :
               \/ mounts[j].mount_point_len < mounts[i].mount_point_len
               \/ (mounts[j].mount_point_len = mounts[i].mount_point_len /\ j <= i)

RECURSIVE PathToVnode(_, _, _)
RECURSIVE ResolveSymlinkIfNeeded(_, _)
RECURSIVE WalkComponents(_, _, _)

\* Vfs::path_to_vnode. `held` says that the calling thread already holds the guard
\* of self.mounts (spin::Mutex, not reentrant): the guard taken at line 459 lives to
\* the end of the function, so every recursive call made through
\* resolve_symlink_if_needed runs with it held, and its own lock() never returns.
PathToVnode(path, depth, held) ==
  IF depth > MAX_SYMLINK_DEPTH THEN ErrR("MaxSymlinkDepth")
  ELSE LET p == TrimMatches(NormalizePath(path), "/")
       IN  IF p = <<>> THEN OkR(ROOT)
           ELSE IF held THEN HangR
           ELSE LET m == SelectMount(p)
                IN  IF m # 0
                    THEN LET subpath == TrimMatches(
                                          SubSeq(p, mounts[m].mount_point_len + 1, Len(p)), "/")
                         IN  IF subpath = <<>>
                             THEN ResolveSymlinkIfNeeded(mounts[m].root, depth)
                             ELSE WalkComponents(mounts[m].root, Split(subpath, "/"), depth)
                    ELSE WalkComponents(ROOT, Split(p, "/"), depth)

\* the `for component in ...split('/')` loops of path_to_vnode
WalkComponents(current, comps, depth) ==
  IF comps = <<>> THEN OkR(current)
  ELSE IF Head(comps) = <<>> \/ Head(comps) = DOT
       THEN WalkComponents(current, Tail(comps), depth)
       ELSE LET found == NodeLookup(current, Head(comps))
            IN  IF found.kind # "Ok" THEN found
                ELSE LET r == ResolveSymlinkIfNeeded(found.val, depth)
                     IN  IF r.kind # "Ok" THEN r
                         ELSE WalkComponents(r.val, Tail(comps), depth)

\* Vfs::resolve_symlink_if_needed (always called under the guard of self.mounts)
ResolveSymlinkIfNeeded(node, depth) ==
  IF nodes[node].node_type = "SymLink"
  THEN PathToVnode(ReadSymlink(node), depth + 1, TRUE)
  ELSE OkR(node)

\* Vfs::lookup
VfsLookup(path) == PathToVnode(path, 0, FALSE)

----------------------------------------------------------------------------
(* Vfs facade (kernel/src/fs/vfs.rs) *)

\* Vfs::create_file
VfsCreateFile(path) ==
  LET sp == SplitPath(path)
  IN  IF ~sp.ok THEN Same(ErrR(sp.err))
      ELSE LET parent == VfsLookup(sp.parent)
           IN  IF parent.kind # "Ok" THEN Same(parent)
               ELSE IF nodes[parent.val].node_type # "Dir" THEN Same(ErrR("NotADirectory"))
               ELSE NodeCreate(parent.val, sp.name, "File")

\* Vfs::create_dir
VfsCreateDir(path) ==
  LET sp == SplitPath(path)
  IN  IF ~sp.ok THEN Same(ErrR(sp.err))
      ELSE LET parent == VfsLookup(sp.parent)
           IN  IF parent.kind # "Ok" THEN Same(parent)
               ELSE IF nodes[parent.val].node_type # "Dir" THEN Same(ErrR("NotADirectory"))
               ELSE NodeCreate(parent.val, sp.name, "Dir")

\* Vfs::create_symlink
VfsCreateSymlink(target_path, link_path) ==
  LET sp == SplitPath(link_path)
  IN  IF ~sp.ok THEN Same(ErrR(sp.err))
      ELSE LET parent == VfsLookup(sp.parent)
           IN  IF parent.kind # "Ok" THEN Same(parent)
               ELSE IF nodes[parent.val].node_type # "Dir" THEN Same(ErrR("NotADirectory"))
               ELSE NodeCreateSymlink(parent.val, sp.name, target_path)

\* Vfs::create_device_node
VfsCreateDeviceNode(path, major, minor, dtype) ==
  LET sp == SplitPath(path)
  IN  IF ~sp.ok THEN Same(ErrR(sp.err))
      ELSE LET parent == VfsLookup(sp.parent)
           IN  IF parent.kind # "Ok" THEN Same(parent)
               ELSE IF nodes[parent.val].node_type # "Dir" THEN Same(ErrR("NotADirectory"))
               ELSE NodeCreateDevice(parent.val, sp.name, major, minor, dtype)

\* Vfs::remove
VfsRemove(path) ==
  LET sp == SplitPath(path)
  IN  IF ~sp.ok THEN Same(ErrR(sp.err))
      ELSE LET parent == VfsLookup(sp.parent)
           IN  IF parent.kind # "Ok" THEN Same(parent)
               ELSE IF nodes[parent.val].node_type # "Dir" THEN Same(ErrR("NotADirectory"))
               ELSE NodeRemove(parent.val, sp.name)

\* Vfs::read_dir
VfsReadDir(path) ==
  LET r == VfsLookup(path)
  IN  IF r.kind # "Ok" THEN [res |-> r, names |-> {}]
      ELSE IF nodes[r.val].node_type # "Dir"
      THEN [res |-> ErrR("NotADirectory"), names |-> {}]
      ELSE NodeReadDir(r.val)

\* Vfs::rename_move. Every VNode of the source is a MemVNode, so both downcasts
\* succeed and the NotImplemented branch is never taken.
VfsRenameMove(old_path, new_path) ==
  LET o == SplitPath(old_path)
      n == SplitPath(new_path)
      old_parent == VfsLookup(o.parent)
      new_parent == VfsLookup(n.parent)
  IN  IF ~o.ok THEN Same(ErrR(o.err))
      ELSE IF old_parent.kind # "Ok" THEN Same(old_parent)
      ELSE IF ~n.ok THEN Same(ErrR(n.err))
      ELSE IF new_parent.kind # "Ok" THEN Same(new_parent)
      ELSE IF NodeLookup(old_parent.val, o.name).kind # "Ok" THEN Same(ErrR("NotFound"))
      ELSE IF NodeLookup(new_parent.val, n.name).kind = "Ok" THEN Same(ErrR("AlreadyExists"))
      ELSE IF o.parent = n.parent THEN NodeRename(old_parent.val, o.name, n.name)
      ELSE MoveNode(old_parent.val, new_parent.val, o.name, n.name)

\* the filesystem drivers Vfs::new() registers
FsRegistry == {"memfs"}

\* mutant of VfsMount: the entry is pushed before the parent and the mount point are
\* checked, and stays when a check fails
VfsMountPushFirst(mount_point, fs_type) ==
  LET normalized == TrimMatches(mount_point, "/")
      pushed == Append(mounts, [path |-> normalized,
                                mount_point_len |-> Len(normalized),
                                root |-> next_inode_id])
      fail(e) == [res |-> e, nodes |-> (next_inode_id :> NewDir) @@ nodes,
                  next |-> next_inode_id + 1, mounts |-> pushed]
      r == RsplitOnce(mount_point, "/")
      hasParent == mount_point # <<"/">> /\ r.some
      parent == VfsLookup(r.before)
  IN  IF fs_type \notin FsRegistry
      THEN [res |-> ErrR("FsTypeNotSupported"), nodes |-> nodes,
            next |-> next_inode_id, mounts |-> mounts]
      ELSE IF hasParent /\ parent.kind # "Ok" THEN fail(parent)
      ELSE IF hasParent /\ nodes[parent.val].node_type # "Dir"
           THEN fail(ErrR("NotADirectory"))
      ELSE IF normalized = <<>> THEN fail(ErrR("InvalidArgument"))
      ELSE [res |-> OkR(0),
            nodes |-> (next_inode_id :> NewDir) @@ nodes,
            next |-> next_inode_id + 1,
            mounts |-> pushed]

\* mutant of VfsMount: the parent of the mount point is not looked up
VfsMountNoParentCheck(mount_point, fs_type) ==
  LET normalized == TrimMatches(mount_point, "/")
  IN  IF fs_type \notin FsRegistry
      THEN [res |-> ErrR("FsTypeNotSupported"), nodes |-> nodes,
            next |-> next_inode_id, mounts |-> mounts]
      ELSE IF normalized = <<>>
           THEN [res |-> ErrR("InvalidArgument"), nodes |-> nodes,
                 next |-> next_inode_id + 1, mounts |-> mounts]
      ELSE [res |-> OkR(0),
            nodes |-> (next_inode_id :> NewDir) @@ nodes,
            next |-> next_inode_id + 1,
            mounts |-> Append(mounts, [path |-> normalized,
                                       mount_point_len |-> Len(normalized),
                                       root |-> next_inode_id])]

\* mutant of VfsMount: the normalized mount point is not checked for being empty
VfsMountNoEmptyCheck(mount_point, fs_type) ==
  LET fail(e) == [res |-> e, nodes |-> nodes, next |-> next_inode_id + 1, mounts |-> mounts]
      r == RsplitOnce(mount_point, "/")
      hasParent == mount_point # <<"/">> /\ r.some
      parent == VfsLookup(r.before)
      normalized == TrimMatches(mount_point, "/")
  IN  IF fs_type \notin FsRegistry
      THEN [res |-> ErrR("FsTypeNotSupported"), nodes |-> nodes,
            next |-> next_inode_id, mounts |-> mounts]
      ELSE IF hasParent /\ parent.kind # "Ok" THEN fail(parent)
      ELSE IF hasParent /\ nodes[parent.val].node_type # "Dir"
           THEN fail(ErrR("NotADirectory"))
      ELSE [res |-> OkR(0),
            nodes |-> (next_inode_id :> NewDir) @@ nodes,
            next |-> next_inode_id + 1,
            mounts |-> Append(mounts, [path |-> normalized,
                                       mount_point_len |-> Len(normalized),
                                       root |-> next_inode_id])]

\* Vfs::mount with device_str = None: [res, nodes, next, mounts]. MemFs::mount builds
\* the new root before the mount point is checked, so NEXT_INODE_ID advances on every
\* path past the registry lookup; an unreferenced root is dropped on return.
VfsMount(mount_point, fs_type) ==
  LET fail(e) == [res |-> e, nodes |-> nodes, next |-> next_inode_id + 1, mounts |-> mounts]
      r == RsplitOnce(mount_point, "/")
      hasParent == mount_point # <<"/">> /\ r.some
      parent == VfsLookup(r.before)
      normalized == TrimMatches(mount_point, "/")
  IN  IF fs_type \notin FsRegistry
      THEN [res |-> ErrR("FsTypeNotSupported"), nodes |-> nodes,
            next |-> next_inode_id, mounts |-> mounts]
      ELSE IF hasParent /\ parent.kind # "Ok" THEN fail(parent)
      ELSE IF hasParent /\ nodes[parent.val].node_type # "Dir"
           THEN fail(ErrR("NotADirectory"))
      ELSE IF normalized = <<>> THEN fail(ErrR("InvalidArgument"))
      ELSE [res |-> OkR(0),
            nodes |-> (next_inode_id :> NewDir) @@ nodes,
            next |-> next_inode_id + 1,
            mounts |-> Append(mounts, [path |-> normalized,
                                       mount_point_len |-> Len(normalized),
                                       root |-> next_inode_id])]


----------------------------------------------------------------------------
(* MemFile (kernel/src/fs/memfs.rs): an open handle; data_ref is the Arc of the      *)
(* node's byte buffer, named by the node's id                                    *)

\* Vec::resize(n, 0) when n > len
ZeroExtend(d, n) == [i \in 1..n |-> IF i <= Len(d) THEN d[i] ELSE 0]

\* u64::min
Min(a, b) == IF a <= b THEN a ELSE b

\* MemVNode::open on a File node, with MemFile::new: the handle takes a copy of the
\* node's Metadata and the Arc of its data, its cursor at 0. (Vfs::open lets no other
\* node type reach MemVNode::open.)
NodeOpenFile(id) ==
  [res |-> OkR(Len(handles) + 1),
   handle |-> [data_ref |-> id, cursor |-> 0, meta |-> nodes[id].meta]]

\* Vfs::open: only File nodes get past the node_type check
VfsOpen(path) ==
  LET r == VfsLookup(path)
  IN  IF r.kind # "Ok" THEN [res |-> r, handle |-> <<>>]
      ELSE IF nodes[r.val].node_type # "File" THEN [res |-> ErrR("NotAFile"), handle |-> <<>>]
      ELSE NodeOpenFile(r.val)

\* mutant of FileRead: the copy starts one byte after the cursor
FileReadOffByOne(h, n) ==
  LET c == handles[h].cursor
      d == nodes[handles[h].data_ref].data
      k == Min(Len(d) - c, n)
  IN  IF c >= Len(d) THEN [res |-> OkR(0), buf |-> <<>>, cursor |-> c]
      ELSE [res |-> OkR(k), buf |-> SubSeq(ZeroExtend(d, Len(d) + 1), c + 2, c + k + 1),
            cursor |-> c + k]

\* mutant of FileRead: the bytes are copied but the cursor stays where it was
FileReadNoAdvance(h, n) ==
  LET c == handles[h].cursor
      d == nodes[handles[h].data_ref].data
      k == Min(Len(d) - c, n)
  IN  IF c >= Len(d) THEN [res |-> OkR(0), buf |-> <<>>, cursor |-> c]
      ELSE [res |-> OkR(k), buf |-> SubSeq(d, c + 1, c + k), cursor |-> c]

\* MemFile::read into a buffer of n bytes: [res, buf (the bytes copied), cursor]
FileRead(h, n) ==
  LET c == handles[h].cursor
      d == nodes[handles[h].data_ref].data
      k == Min(Len(d) - c, n)
  IN  IF c >= Len(d) THEN [res |-> OkR(0), buf |-> <<>>, cursor |-> c]
      ELSE [res |-> OkR(k), buf |-> SubSeq(d, c + 1, c + k), cursor |-> c + k]

\* MemFile::update_metadata
UpdateMetadata(m, new_size) ==
  [m EXCEPT !.size = new_size, !.blocks = DivCeil(new_size, BLOCK_SIZE)]

\* mutant of FileWrite: the bytes are appended at the end, not written at the cursor
FileWriteAppend(h, buf) ==
  LET c == handles[h].cursor
      d == nodes[handles[h].data_ref].data
  IN  [res |-> OkR(Len(buf)), data |-> d \o buf, cursor |-> c + Len(buf),
       meta |-> UpdateMetadata(handles[h].meta, Len(d) + Len(buf))]

\* MemFile::write: [res, data, cursor, meta]
FileWrite(h, buf) ==
  LET start == handles[h].cursor
      d == nodes[handles[h].data_ref].data
      resized == IF start + Len(buf) > Len(d) THEN ZeroExtend(d, start + Len(buf)) ELSE d
      written == [i \in 1..Len(resized) |->
                    IF start < i /\ i <= start + Len(buf) THEN buf[i - start] ELSE resized[i]]
  IN  [res |-> OkR(Len(buf)), data |-> written, cursor |-> start + Len(buf),
       meta |-> UpdateMetadata(handles[h].meta, Len(written))]

\* mutant of FileSeek: the cursor is not per handle, every handle of the file moves
FileSeekShared(h, pos) ==
  [g \in DOMAIN handles |->
     IF handles[g].data_ref = handles[h].data_ref
     THEN [handles[g] EXCEPT !.cursor = pos] ELSE handles[g]]

\* MemFile::seek: the handles after it
FileSeek(h, pos) == [handles EXCEPT ![h].cursor = pos]

\* MemFile::stat: the handle's Metadata after it, which is what it returns
FileStat(h) ==
  LET m == handles[h].meta
      current_data_len == Len(nodes[handles[h].data_ref].data)
  IN  IF m.size # current_data_len
      THEN [m EXCEPT !.size = current_data_len,
                     !.blocks = DivCeil(current_data_len, BLOCK_SIZE)]
      ELSE m

\* MemFile::truncate: [data, meta]
FileTruncate(h, size) ==
  LET d == nodes[handles[h].data_ref].data
      nd == IF size < Len(d) THEN SubSeq(d, 1, size)
            ELSE IF size > Len(d) THEN ZeroExtend(d, size) ELSE d
  IN  [data |-> nd, meta |-> UpdateMetadata(handles[h].meta, Len(nd))]

\* MemVNode::metadata
NodeMetadata(id) == nodes[id].meta


----------------------------------------------------------------------------
(* State after construction: Vfs::new() has mounted a MemFs root (inode 1),     *)
(* the mount table is empty, DeviceManager::new() holds no device.           *)

NoMeta == [size |-> 0, blocks |-> 0]

\* no call made yet; the fields of a call: the operation, its path and second string
\* argument, the new name or path of a rename, the node or handle it was made on
\* (for a rename_move: the node its old path named), its numeric argument (buffer length,
\* position, size), the bytes and the Metadata it returned
\* for a call on a Device node: the (major, minor, type) the node stores and the index
\* in the Device Manager of the device the call was forwarded to (0: none); for a
\* read_dir: the names it returned; for Device::open and Device::close: the call made
\* to the driver
NoCall == [op |-> "none", path |-> <<>>, arg |-> <<>>, to |-> <<>>, typ |-> "None",
           node |-> 0, h |-> 0, n |-> 0, buf |-> <<>>, meta |-> NoMeta, res |-> OkR(0),
           dev |-> NoDev, io |-> 0, names |-> {}, drv |-> "none"]

\* no write remembered
NoRoundTrip == [phase |-> 0, fresh |-> FALSE, h |-> 0, off |-> 0, buf |-> <<>>]

Threads == 1..MaxThreads

\* the arguments of a move_node call and the node it read from the source directory
NoMove == [src |-> 0, dst |-> 0, old |-> <<>>, new |-> <<>>, node |-> 0]

\* a thread that is in no call: where it is, the guards it holds, the call it is
\* in, the root MemFs::mount gave it, its path_to_vnode frames, the call's result,
\* for a move_node call its arguments, for a create_device call the directory, the
\* name and the device numbers, and the directory whose entries it holds the write
\* guard of (0: none); for a walk call its stack of paths and its results; for a
\* read_block or write_block call the block and the bytes
Idle == [pc |-> "idle", held |-> {}, op |-> "none", path |-> <<>>, typ |-> "None",
         root |-> 0, stack |-> <<>>, res |-> OkR(0), mv |-> NoMove,
         dir |-> 0, name |-> <<>>, dev |-> NoDev, wlock |-> 0,
         todo |-> <<>>, results |-> <<>>, block_id |-> 0, buf |-> 0]

\* load_cpio not called: where it is, the archive and the entry and component it is
\* at, its result, the paths it has created and the tree it started from
NotLoading == [pc |-> "idle", archive |-> <<>>, i |-> 0, k |-> 0, res |-> OkR(0),
               made |-> {}, before |-> <<>>]

\* the blocks of the device and the values written to them (a block starts as 0)
BlockIds == {0, 1}
BlockValues == {1, 2}

\* BlockCache::new(device): an empty cache; cache is a set of <<block_id, data>>
NewBlockCache == [device |-> [b \in BlockIds |-> 0], cache |-> {}]

Init ==
  /\ bc = NewBlockCache
  /\ ld = NotLoading
  /\ thr = [t \in Threads |-> Idle]
  /\ nodes = (ROOT :> NewDir)
  /\ next_inode_id = ROOT + 1
  /\ mounts = <<>>
  /\ handles = <<>>
  /\ devmgr = [devices |-> <<>>, next_minor_counters |-> {}, free_minors |-> {}]
  /\ last = NoCall
  /\ hung = FALSE
  /\ rt = NoRoundTrip

\* a call of the Vfs facade that touches only the tree, made by the one calling thread
TreeCall(op, path, arg, out) ==
  /\ ~hung
  /\ nodes' = out.nodes
  /\ next_inode_id' = out.next
  /\ last' = [NoCall EXCEPT !.op = op, !.path = path, !.arg = arg, !.res = out.res]
  /\ hung' = (out.res.kind = "Hang")
  /\ UNCHANGED <<mounts, handles, devmgr>>

CreateFile(path) ==
  /\ next_inode_id <= MaxNodes
  /\ TreeCall("create_file", path, <<>>, VfsCreateFile(path))

CreateDir(path) ==
  /\ next_inode_id <= MaxNodes
  /\ TreeCall("create_dir", path, <<>>, VfsCreateDir(path))

CreateSymlink(target, link) ==
  /\ next_inode_id <= MaxNodes
  /\ TreeCall("create_symlink", link, target, VfsCreateSymlink(target, link))

CreateDeviceNode(path, dev) ==
  /\ next_inode_id <= MaxNodes
  /\ TreeCall("create_device", path, <<>>,
              VfsCreateDeviceNode(path, dev.major, dev.minor, dev.dtype))

Remove(path) == TreeCall("remove", path, <<>>, VfsRemove(path))

Lookup(path) == TreeCall("lookup", path, <<>>, Same(VfsLookup(path)))

Mount(mount_point, fs_type) ==
  LET out == VfsMount(mount_point, fs_type)
  IN  /\ ~hung
      /\ next_inode_id <= MaxNodes
      /\ Len(mounts) < MaxMounts
      /\ nodes' = out.nodes
      /\ next_inode_id' = out.next
      /\ mounts' = out.mounts
      /\ last' = [NoCall EXCEPT !.op = "mount", !.path = mount_point, !.typ = fs_type,
                                !.res = out.res]
      /\ hung' = (out.res.kind = "Hang")
      /\ UNCHANGED <<handles, devmgr>>

\* init_devices(): DEVICE_MANAGER.lock().register_device(serial)
InitDevices ==
  LET r == RegisterDeviceOp(devmgr, SerialDev)
  IN  /\ ~hung
      /\ devmgr' = r.dm
      /\ last' = [NoCall EXCEPT !.op = "register_device", !.res = r.res]
      /\ UNCHANGED <<nodes, next_inode_id, mounts, handles, hung>>

----------------------------------------------------------------------------
(* Directory tree: creation, removal and lookup under the global root *)

P_a == <<"/", "a">>
P_ab == <<"/", "a", "/", "b">>
P_abc == <<"/", "a", "/", "b", "/", "c">>
P_a_dot == <<"/", "a", "/", ".">>
P_a_dotdot == <<"/", "a", "/", ".", ".">>
P_a_slash_b == <<"/", "a", "/", "/", "b">>

TreePaths == {P_a, P_ab, P_abc, P_a_dot, P_a_dotdot, P_a_slash_b}

NextTree ==
  \/ \E p \in TreePaths : CreateFile(p) /\ UNCHANGED <<rt, thr, ld, bc>>
  \/ \E p \in TreePaths : CreateDir(p) /\ UNCHANGED <<rt, thr, ld, bc>>
  \/ \E p \in TreePaths : Remove(p) /\ UNCHANGED <<rt, thr, ld, bc>>
  \/ \E p \in TreePaths : Lookup(p) /\ UNCHANGED <<rt, thr, ld, bc>>

SpecTree == Init /\ [][NextTree]_vars


----------------------------------------------------------------------------
(* Calls made on a node itself (trait VNode), by a caller holding its Arc *)

NodeCall(op, id, name, typ, out) ==
  /\ ~hung
  /\ nodes' = out.nodes
  /\ next_inode_id' = out.next
  /\ last' = [NoCall EXCEPT !.op = op, !.node = id, !.arg = name, !.typ = typ,
                            !.res = out.res]
  /\ UNCHANGED <<mounts, handles, devmgr, hung>>

DirLookup(id, name) == NodeCall("node_lookup", id, name, "None", Same(NodeLookup(id, name)))

DirCreate(id, name, typ) ==
  /\ next_inode_id <= MaxNodes
  /\ NodeCall("node_create", id, name, typ, NodeCreate(id, name, typ))

DirCreateSymlink(id, name, target) ==
  /\ next_inode_id <= MaxNodes
  /\ NodeCall("node_create_symlink", id, name, "SymLink", NodeCreateSymlink(id, name, target))

DirCreateDevice(id, name, dev) ==
  /\ next_inode_id <= MaxNodes
  /\ NodeCall("node_create_device", id, name, "Device",
              NodeCreateDevice(id, name, dev.major, dev.minor, dev.dtype))

DirRemove(id, name) == NodeCall("node_remove", id, name, "None", NodeRemove(id, name))

Names == {<<"a">>, <<"b">>}
VNodeTypes == {"File", "Dir", "SymLink", "Device"}

\* this specification calls every operation on every node: it stops creating one
\* node earlier than the others
NodeBudget == MaxNodes - 1

NextNode ==
  \/ \E id \in DOMAIN nodes, n \in Names, t \in VNodeTypes :
        next_inode_id <= NodeBudget /\ DirCreate(id, n, t) /\ UNCHANGED <<rt, thr, ld, bc>>
  \/ \E id \in DOMAIN nodes, n \in Names :
        next_inode_id <= NodeBudget /\ DirCreateSymlink(id, n, P_a) /\ UNCHANGED <<rt, thr, ld, bc>>
  \/ \E id \in DOMAIN nodes, n \in Names :
        next_inode_id <= NodeBudget /\ DirCreateDevice(id, n, SerialDev) /\ UNCHANGED <<rt, thr, ld, bc>>
  \/ \E id \in DOMAIN nodes, n \in Names : DirRemove(id, n) /\ UNCHANGED <<rt, thr, ld, bc>>
  \/ \E id \in DOMAIN nodes, n \in Names : DirLookup(id, n) /\ UNCHANGED <<rt, thr, ld, bc>>
  \/ InitDevices /\ UNCHANGED <<rt, thr, ld, bc>>

SpecNode == Init /\ [][NextNode]_vars

\* C6: create, create_symlink and create_device on a directory that already has the
\* name return AlreadyExists and leave every directory as it was; lookup of a name the
\* directory does not have returns NotFound
C6_DuplicateNameRejected ==
  [][ /\ ( /\ last'.op \in {"node_create", "node_create_symlink", "node_create_device"}
           /\ nodes[last'.node].node_type = "Dir"
           /\ ContainsKey(last'.node, last'.arg) )
         => (last'.res = ErrR("AlreadyExists") /\ nodes' = nodes)
      /\ ( /\ last'.op = "node_lookup"
           /\ nodes[last'.node].node_type = "Dir"
           /\ ~ContainsKey(last'.node, last'.arg) )
         => last'.res = ErrR("NotFound")
    ]_vars

\* C6 witness: create_device on a taken name was refused, the device being registered
C6_Witness ==
  /\ last.op = "node_create_device"
  /\ last.res = ErrR("AlreadyExists")
  /\ GetDeviceByMajorMinor(SerialDev.major, SerialDev.minor) # 0
  /\ ContainsKey(last.node, last.arg)


\* C4 (as claimed): for every path P for which create_file(P) succeeded, a lookup(P)
\* made right after it returns a File node whose metadata().size is 0
C4_CreatedFileIsFoundAsEmptyFile ==
  (last.op = "create_file" /\ last.res.kind = "Ok") =>
     LET r == VfsLookup(last.path)
     IN  /\ r.kind = "Ok"
         /\ nodes[r.val].node_type = "File"
         /\ nodes[r.val].meta.size = 0

\* C7: removing a directory that still has an entry fails with DirectoryNotEmpty and
\* changes nothing; removing an empty directory succeeds and its name is gone from
\* the parent
C7_RemoveDirOnlyWhenEmpty ==
  [][ last'.op = "remove" =>
        LET sp == SplitPath(last'.path)
            parent == VfsLookup(sp.parent)
            isDirEntry == /\ sp.ok
                          /\ parent.kind = "Ok"
                          /\ nodes[parent.val].node_type = "Dir"
                          /\ ContainsKey(parent.val, sp.name)
                          /\ nodes[GetEntry(parent.val, sp.name)].node_type = "Dir"
        IN  isDirEntry =>
              IF nodes[GetEntry(parent.val, sp.name)].entries # {}
              THEN last'.res = ErrR("DirectoryNotEmpty") /\ nodes' = nodes
              ELSE /\ last'.res.kind = "Ok"
                   /\ ~\E e \in nodes'[parent.val].entries : e[1] = sp.name
                   /\ GetEntry(parent.val, sp.name) \notin DOMAIN nodes'
    ]_vars

\* C7 witness: remove("/a") was refused while /a/b was still there
C7_Witness ==
  /\ last.op = "remove" /\ last.path = P_a
  /\ last.res = ErrR("DirectoryNotEmpty")
  /\ ContainsKey(ROOT, <<"a">>)
  /\ ContainsKey(GetEntry(ROOT, <<"a">>), <<"b">>)


----------------------------------------------------------------------------
(* Mount table: mounts at /m and /m/d over the global root *)

P_m == <<"/", "m">>
P_md == <<"/", "m", "/", "d">>
P_mdf == <<"/", "m", "/", "d", "/", "f">>
S_md == <<"m", "/", "d">>

NextMount ==
  \/ \E p \in {P_m, P_md} : CreateDir(p) /\ UNCHANGED <<rt, thr, ld, bc>>
  \/ \E p \in {P_mdf} : CreateFile(p) /\ UNCHANGED <<rt, thr, ld, bc>>
  \/ \E p \in {P_m, P_md}, t \in {"memfs", "ext2"} : Mount(p, t) /\ UNCHANGED <<rt, thr, ld, bc>>
  \/ \E p \in {P_m, P_md, P_mdf} : Lookup(p) /\ UNCHANGED <<rt, thr, ld, bc>>

SpecMount == Init /\ [][NextMount]_vars

\* C1: with a mount registered at /m/d, a lookup of /m/d or /m/d/<rest> returns what
\* walking <rest> from that mount's root returns (never what the global root holds at
\* that path), and no matching mount has a longer prefix than the one used
C1_LongestPrefixMountUsed ==
  LET p == TrimMatches(NormalizePath(last.path), "/")
      rest == SubSeq(p, Len(S_md) + 1, Len(p))
  IN  ( /\ last.op = "lookup"
        /\ StartsWith(p, S_md)
        /\ \E i \in 1..Len(mounts) : mounts[i].path = S_md )
      => \E i \in 1..Len(mounts) :
           /\ mounts[i].path = S_md
           /\ \A j \in 1..Len(mounts) :
                StartsWith(p, mounts[j].path) => Len(mounts[j].path) <= Len(mounts[i].path)
           /\ IF rest = <<>> THEN last.res = OkR(mounts[i].root)
              ELSE /\ rest = <<"/", "f">>
                   /\ last.res = IF ContainsKey(mounts[i].root, <<"f">>)
                                 THEN OkR(GetEntry(mounts[i].root, <<"f">>))
                                 ELSE ErrR("NotFound")

\* C1 witness: mounts at /m and /m/d, and lookup("/m/d/f") found the file kept by the
\* /m/d mount's root
C1_Witness ==
  /\ last.op = "lookup" /\ last.path = P_mdf /\ last.res.kind = "Ok"
  /\ \E i, j \in 1..Len(mounts) :
       /\ mounts[i].path = <<"m">>
       /\ mounts[j].path = S_md
       /\ <<<<"f">>, last.res.val>> \in nodes[mounts[j].root].entries


----------------------------------------------------------------------------
(* Symbolic links under the global root *)

P_root == <<"/">>
P_l == <<"/", "l">>
P_k == <<"/", "k">>
P_lc == <<"/", "l", "/", "c">>

NextSym ==
  \/ \E p \in {P_a, P_ab} : CreateDir(p) /\ UNCHANGED <<rt, thr, ld, bc>>
  \/ \E p \in {P_abc} : CreateFile(p) /\ UNCHANGED <<rt, thr, ld, bc>>
  \/ \E t \in {P_ab, P_l, P_root}, p \in {P_l, P_k} : CreateSymlink(t, p) /\ UNCHANGED <<rt, thr, ld, bc>>
  \/ \E p \in {P_abc, P_l, P_k, P_lc} : Lookup(p) /\ UNCHANGED <<rt, thr, ld, bc>>

SpecSym == Init /\ [][NextSym]_vars

RECURSIVE PlainWalk(_, _)
\* the node the components lead to from `id`, entry by entry, following no link;
\* 0 when an entry is missing
PlainWalk(id, comps) ==
  IF comps = <<>> THEN id
  ELSE IF nodes[id].node_type = "Dir" /\ ContainsKey(id, Head(comps))
       THEN PlainWalk(GetEntry(id, Head(comps)), Tail(comps))
       ELSE 0

\* the node a path names under the global root, following no link
PlainNode(path) ==
  LET p == TrimMatches(path, "/")
  IN  IF p = <<>> THEN ROOT ELSE PlainWalk(ROOT, Split(p, "/"))

RECURSIVE LinkChain(_, _)
\* the chain of links starting at node `id`: how many links it has and the node it
\* ends at (0: it does not end within MAX_SYMLINK_DEPTH + 1 links, -1: it dangles)
LinkChain(id, k) ==
  IF nodes[id].node_type # "SymLink" THEN [links |-> k, end |-> id]
  ELSE IF k > MAX_SYMLINK_DEPTH THEN [links |-> k + 1, end |-> 0]
  ELSE LET t == PlainNode(nodes[id].target)
       IN  IF t = 0 THEN [links |-> k + 1, end |-> -1] ELSE LinkChain(t, k + 1)

\* C2 (as claimed): a lookup of a path that names a link whose chain of links ends at
\* a node after at most 8 links returns that node; with more than 8 links (a cycle
\* of links included) it fails with MaxSymlinkDepth
C2_SymlinkChainBound ==
  ( /\ last.op = "lookup"
    /\ PlainNode(last.path) > 0
    /\ nodes[PlainNode(last.path)].node_type = "SymLink" )
  => LET c == LinkChain(PlainNode(last.path), 0)
     IN  /\ (c.end > 0 /\ c.links <= MAX_SYMLINK_DEPTH) => last.res = OkR(c.end)
         /\ c.end = 0 => last.res = ErrR("MaxSymlinkDepth")

\* C3 (as claimed): with the link /l -> /a/b and /a/b/c present, lookup("/l/c") and
\* lookup("/a/b/c") both succeed and return the same node
C3_LinkAndTargetSameNode ==
  ( /\ last.op = "lookup"
    /\ last.path \in {P_lc, P_abc}
    /\ PlainNode(P_l) > 0
    /\ nodes[PlainNode(P_l)].node_type = "SymLink"
    /\ nodes[PlainNode(P_l)].target = P_ab
    /\ PlainNode(P_abc) > 0 )
  => last.res = OkR(PlainNode(P_abc))


----------------------------------------------------------------------------
(* Open files: one file /f, handles on it *)

Open(path) ==
  LET o == VfsOpen(path)
  IN  /\ ~hung
      /\ Len(handles) < MaxHandles
      /\ handles' = IF o.res.kind = "Ok" THEN Append(handles, o.handle) ELSE handles
      /\ last' = [NoCall EXCEPT !.op = "open", !.path = path, !.res = o.res,
                                !.h = IF o.res.kind = "Ok" THEN o.res.val ELSE 0]
      /\ hung' = (o.res.kind = "Hang")
      /\ UNCHANGED <<nodes, next_inode_id, mounts, devmgr>>

Read(h, n) ==
  LET r == FileRead(h, n)
  IN  /\ ~hung
      /\ handles' = [handles EXCEPT ![h].cursor = r.cursor]
      /\ last' = [NoCall EXCEPT !.op = "read", !.h = h, !.n = n, !.buf = r.buf, !.res = r.res]
      /\ UNCHANGED <<nodes, next_inode_id, mounts, devmgr, hung>>

\* the heap of the model holds MaxFileLen bytes per file
Write(h, buf) ==
  LET w == FileWrite(h, buf)
  IN  /\ ~hung
      /\ handles[h].cursor + Len(buf) <= MaxFileLen
      /\ nodes' = [nodes EXCEPT ![handles[h].data_ref].data = w.data]
      /\ handles' = [handles EXCEPT ![h].cursor = w.cursor, ![h].meta = w.meta]
      /\ last' = [NoCall EXCEPT !.op = "write", !.h = h, !.n = Len(buf), !.buf = buf,
                                !.res = w.res]
      /\ UNCHANGED <<next_inode_id, mounts, devmgr, hung>>

Seek(h, pos) ==
  /\ ~hung
  /\ handles' = FileSeek(h, pos)
  /\ last' = [NoCall EXCEPT !.op = "seek", !.h = h, !.n = pos, !.res = OkR(handles'[h].cursor)]
  /\ UNCHANGED <<nodes, next_inode_id, mounts, devmgr, hung>>

Truncate(h, size) ==
  LET t == FileTruncate(h, size)
  IN  /\ ~hung
      /\ nodes' = [nodes EXCEPT ![handles[h].data_ref].data = t.data]
      /\ handles' = [handles EXCEPT ![h].meta = t.meta]
      /\ last' = [NoCall EXCEPT !.op = "truncate", !.h = h, !.n = size, !.res = OkR(0)]
      /\ UNCHANGED <<next_inode_id, mounts, devmgr, hung>>

Stat(h) ==
  /\ ~hung
  /\ handles' = [handles EXCEPT ![h].meta = FileStat(h)]
  /\ last' = [NoCall EXCEPT !.op = "stat", !.h = h, !.meta = FileStat(h), !.res = OkR(0)]
  /\ UNCHANGED <<nodes, next_inode_id, mounts, devmgr, hung>>

\* Vfs::lookup(path) followed by VNode::metadata() on the node found
Metadata(path) ==
  LET r == VfsLookup(path)
  IN  /\ ~hung
      /\ last' = [NoCall EXCEPT !.op = "metadata", !.path = path, !.res = r,
                                !.meta = IF r.kind = "Ok" THEN NodeMetadata(r.val) ELSE NoMeta]
      /\ hung' = (r.kind = "Hang")
      /\ UNCHANGED <<nodes, next_inode_id, mounts, handles, devmgr>>

\* history of the call just made (last'): a write is remembered with its handle, its
\* offset and whether it was made at cursor 0 of an empty file; phase 2 and 3 follow
\* that handle through seek(0) and a read of as many bytes; a later write or truncate
\* replaces or forgets it
RoundTripStep ==
  rt' = IF last'.op = "write"
        THEN [phase |-> 1,
              fresh |-> (handles[last'.h].cursor = 0
                           /\ nodes[handles[last'.h].data_ref].data = <<>>),
              h |-> last'.h, off |-> handles[last'.h].cursor, buf |-> last'.buf]
        ELSE IF last'.op = "truncate" \/ rt.phase = 0 THEN NoRoundTrip
        ELSE IF last'.h # rt.h /\ rt.phase < 3 THEN rt
        ELSE IF rt.phase = 1 /\ rt.fresh /\ last'.op = "seek" /\ last'.n = 0
             THEN [rt EXCEPT !.phase = 2]
        ELSE IF rt.phase = 2 /\ last'.op = "read" /\ last'.n = Len(rt.buf)
             THEN [rt EXCEPT !.phase = 3]
        ELSE [rt EXCEPT !.phase = 1, !.fresh = FALSE]

P_f == <<"/", "f">>

\* the buffers written
Bufs == {<<1>>, <<2, 1>>}

NextFile ==
  \/ CreateFile(P_f) /\ RoundTripStep /\ UNCHANGED <<thr, ld, bc>>
  \/ Open(P_f) /\ RoundTripStep /\ UNCHANGED <<thr, ld, bc>>
  \/ \E h \in DOMAIN handles, n \in 1..MaxFileLen : Read(h, n) /\ RoundTripStep /\ UNCHANGED <<thr, ld, bc>>
  \/ \E h \in DOMAIN handles, b \in Bufs : Write(h, b) /\ RoundTripStep /\ UNCHANGED <<thr, ld, bc>>
  \/ \E h \in DOMAIN handles, pos \in 0..MaxFileLen : Seek(h, pos) /\ RoundTripStep /\ UNCHANGED <<thr, ld, bc>>
  \/ \E h \in DOMAIN handles, size \in 0..MaxFileLen : Truncate(h, size) /\ RoundTripStep /\ UNCHANGED <<thr, ld, bc>>
  \/ \E h \in DOMAIN handles : Stat(h) /\ RoundTripStep /\ UNCHANGED <<thr, ld, bc>>
  \/ Metadata(P_f) /\ RoundTripStep /\ UNCHANGED <<thr, ld, bc>>

SpecFile == Init /\ [][NextFile]_vars


\* C5: on a fresh handle of an empty file, write(buf) with buf non-empty, then seek(0),
\* then a read into a buffer of len(buf) bytes returns len(buf) and exactly the bytes
\* of buf.
C5_WriteSeekReadRoundTrip ==
  (rt.phase = 3 /\ rt.fresh) =>
     /\ last.op = "read"
     /\ last.res = OkR(Len(rt.buf))
     /\ last.buf = rt.buf

\* the round trip has been made with a buffer of two different bytes
C5_Witness ==
  /\ rt.phase = 3 /\ rt.fresh
  /\ rt.buf = <<2, 1>>
  /\ last.op = "read" /\ last.h = rt.h

\* the buffer length and block count a file's Metadata should report
SizeOfData(id) == Len(nodes[id].data)
BlocksOfData(id) == (SizeOfData(id) + BLOCK_SIZE - 1) \div BLOCK_SIZE

\* C8: the size reported for a file, by the node's metadata() and by a handle's
\* stat(), is the current length of the byte buffer, and blocks is ceil(size / 512).
C8_ReportedSizeIsBufferLength ==
  /\ (last.op = "metadata" /\ last.res.kind = "Ok") =>
        /\ last.meta.size = SizeOfData(last.res.val)
        /\ last.meta.blocks = BlocksOfData(last.res.val)
  /\ last.op = "stat" =>
        /\ last.meta.size = SizeOfData(handles[last.h].data_ref)
        /\ last.meta.blocks = BlocksOfData(handles[last.h].data_ref)

\* the cursor a read started from, seen after the read
ReadStart == handles[last.h].cursor - last.res.val

\* C9: two handles of one file have independent cursors (a read, write or seek on
\* one leaves the other's cursor alone) and share the content: the bytes written
\* through one handle are what a later read through the other returns at the same
\* offsets.
C9_IndependentCursorsSharedContent ==
  [][ /\ last'.op \in {"read", "write", "seek"} =>
           \A g \in DOMAIN handles : g # last'.h => handles'[g].cursor = handles[g].cursor
      /\ (/\ last'.op = "read" /\ rt.phase >= 1 /\ last'.h # rt.h
          /\ handles[last'.h].cursor = rt.off
          /\ last'.n >= Len(rt.buf))
           => /\ last'.res.val >= Len(rt.buf)
              /\ SubSeq(last'.buf, 1, Len(rt.buf)) = rt.buf ]_vars

\* one handle wrote two bytes past the start, the other has just read them back
C9_Witness ==
  /\ last.op = "read" /\ rt.phase >= 1 /\ last.h # rt.h
  /\ rt.off > 0 /\ ReadStart = rt.off
  /\ rt.buf = <<2, 1>> /\ last.buf = rt.buf
  /\ handles[rt.h].cursor # handles[last.h].cursor

\* a seek to pos answered Ok(pos) and left the cursor at pos
SeekDone ==
  last'.op = "seek" => /\ last'.res = OkR(last'.n)
                       /\ handles'[last'.h].cursor = last'.n

\* what a write of last'.buf at the cursor did to the bytes, given the new length
WriteDone(new_len) ==
  LET h == last'.h
      pos == handles[h].cursor
      old == nodes[handles[h].data_ref].data
      new == nodes'[handles[h].data_ref].data
      buf == last'.buf
  IN  /\ Len(new) = new_len
      /\ \A i \in 1..Len(new) :
           new[i] = IF pos < i /\ i <= pos + Len(buf) THEN buf[i - pos]
                    ELSE IF i <= Len(old) THEN old[i]
                    ELSE 0

\* C10 as stated: seek(pos) always succeeds; the following write of a non-empty buf
\* makes the file's length exactly pos + len(buf), with zeros between the old length
\* and pos, the bytes below the old length unchanged and buf at pos.
C10_WriteMakesLengthPosPlusLen ==
  [][ /\ SeekDone
      /\ (last'.op = "write" /\ last'.buf # <<>>) =>
            WriteDone(handles[last'.h].cursor + Len(last'.buf)) ]_vars

\* u64::max
Max(a, b) == IF a >= b THEN a ELSE b

\* C10 amended: the length after the write is the larger of the old length and
\* pos + len(buf); a write that ends inside the file does not shorten it.
C10_WriteExtendsToPosPlusLen ==
  [][ /\ SeekDone
      /\ (last'.op = "write" /\ last'.buf # <<>>) =>
            WriteDone(Max(Len(nodes[handles[last'.h].data_ref].data),
                          handles[last'.h].cursor + Len(last'.buf))) ]_vars

\* a write after a seek past the end of a non-empty file: one old byte, one fill byte,
\* one written byte
C10_Witness ==
  /\ last.op = "write" /\ last.buf = <<1>>
  /\ rt.off = 2
  /\ Len(nodes[handles[last.h].data_ref].data) = 3
  /\ nodes[handles[last.h].data_ref].data[1] # 0
  /\ nodes[handles[last.h].data_ref].data[2] = 0


\* C11: read into a buffer of len bytes, on a handle with cursor c of a file of n
\* bytes: when c < n it copies min(len, n - c) bytes from offset c and advances the
\* cursor by that count; when c >= n it returns 0 and leaves cursor and file alone;
\* write(buf) advances the cursor by len(buf).
C11_ReadCopiesMinAndAdvances ==
  [][ LET h == last'.h
          c == handles[h].cursor
          d == nodes[handles[h].data_ref].data
          k == IF last'.n <= Len(d) - c THEN last'.n ELSE Len(d) - c
      IN  /\ last'.op = "read" =>
                IF c < Len(d)
                THEN /\ last'.res = OkR(k)
                     /\ last'.buf = [i \in 1..k |-> d[c + i]]
                     /\ handles'[h].cursor = c + k
                     /\ nodes' = nodes
                ELSE /\ last'.res = OkR(0)
                     /\ handles'[h].cursor = c
                     /\ nodes' = nodes
          /\ last'.op = "write" =>
                /\ last'.res = OkR(Len(last'.buf))
                /\ handles'[h].cursor = c + Len(last'.buf) ]_vars

\* a read that started inside the file and was cut short by its end
C11_Witness ==
  /\ last.op = "read"
  /\ ReadStart > 0
  /\ last.res.val > 0 /\ last.res.val < last.n
  /\ handles[last.h].cursor = Len(nodes[handles[last.h].data_ref].data)


----------------------------------------------------------------------------
(* Removing a file that is open *)

\* one handle fewer than SpecFile: the removal needs one open handle only
UnlinkHandles == MaxHandles - 1

NextUnlink ==
  \/ next_inode_id <= NodeBudget /\ CreateFile(P_f) /\ UNCHANGED <<rt, thr, ld, bc>>
  \/ Len(handles) < UnlinkHandles /\ Open(P_f) /\ UNCHANGED <<rt, thr, ld, bc>>
  \/ Remove(P_f) /\ UNCHANGED <<rt, thr, ld, bc>>
  \/ Lookup(P_f) /\ UNCHANGED <<rt, thr, ld, bc>>
  \/ \E h \in DOMAIN handles : Read(h, MaxFileLen) /\ UNCHANGED <<rt, thr, ld, bc>>
  \/ \E h \in DOMAIN handles, b \in Bufs : Write(h, b) /\ UNCHANGED <<rt, thr, ld, bc>>
  \/ \E h \in DOMAIN handles : Seek(h, 0) /\ UNCHANGED <<rt, thr, ld, bc>>

SpecUnlink == Init /\ [][NextUnlink]_vars

\* the file node has no directory entry left
Unlinked(id) == ~\E d \in DOMAIN nodes : \E e \in nodes[d].entries : e[2] = id

\* C12: removing the entry of a file that has an open handle succeeds, a lookup of
\* the name then returns NotFound, and the handle goes on reading and writing the
\* content it had: the removal changes no byte and no cursor, a later read returns
\* the bytes at the cursor and a later write puts its bytes there.
C12_RemoveKeepsOpenFile ==
  /\ []( (last.op = "remove" /\ last.res.kind = "Ok") =>
            VfsLookup(last.path) = ErrR("NotFound") )
  /\ [][ /\ ( /\ last'.op = "remove"
              /\ PlainNode(last'.path) > 0
              /\ \E h \in DOMAIN handles : handles[h].data_ref = PlainNode(last'.path) )
            => LET f == PlainNode(last'.path)
               IN  /\ last'.res.kind = "Ok"
                   /\ handles' = handles
                   /\ f \in DOMAIN nodes'
                   /\ nodes'[f].data = nodes[f].data
         /\ ( /\ last'.op \in {"read", "write"}
              /\ Unlinked(handles[last'.h].data_ref) )
            => LET f == handles[last'.h].data_ref
                   c == handles[last'.h].cursor
               IN  /\ last'.res.kind = "Ok"
                   /\ f \in DOMAIN nodes'
                   /\ last'.op = "read" =>
                         /\ last'.buf = SubSeq(nodes[f].data, c + 1, c + last'.res.val)
                         /\ (c < Len(nodes[f].data)) => last'.res.val > 0
                   /\ last'.op = "write" =>
                         SubSeq(nodes'[f].data, c + 1, c + Len(last'.buf)) = last'.buf ]_vars

\* the file was written, its entry removed, and the handle has just read the two
\* bytes back
C12_Witness ==
  /\ last.op = "read" /\ last.buf = <<2, 1>>
  /\ Unlinked(handles[last.h].data_ref)
  /\ VfsLookup(P_f) = ErrR("NotFound")


----------------------------------------------------------------------------
(* Opening each type of node *)

P_dev == <<"/", "t">>

NextOpen ==
  \/ InitDevices /\ UNCHANGED <<rt, thr, ld, bc>>
  \/ CreateFile(P_f) /\ UNCHANGED <<rt, thr, ld, bc>>
  \/ CreateDir(P_a) /\ UNCHANGED <<rt, thr, ld, bc>>
  \/ CreateDeviceNode(P_dev, SerialDev) /\ UNCHANGED <<rt, thr, ld, bc>>
  \/ CreateSymlink(P_root, P_l) /\ UNCHANGED <<rt, thr, ld, bc>>
  \/ \E p \in {P_f, P_a, P_dev, P_l} : Open(p) /\ UNCHANGED <<rt, thr, ld, bc>>
  \/ \E p \in {P_f, P_a, P_dev, P_l} : Lookup(p) /\ UNCHANGED <<rt, thr, ld, bc>>

SpecOpen == Init /\ [][NextOpen]_vars

\* C13 (as claimed): Vfs::open of a path naming a File node, or a Device node whose
\* device is registered with the node's type, returns a handle with cursor 0; of a
\* path naming a Dir or SymLink node it fails with NotAFile.
C13_OpenFileOrDevice ==
  (last.op = "open" /\ PlainNode(last.path) > 0) =>
     LET n == nodes[PlainNode(last.path)]
         d == GetDeviceByMajorMinor(n.dev.major, n.dev.minor)
     IN  /\ n.node_type = "File" =>
               /\ last.res.kind = "Ok"
               /\ handles[last.h].cursor = 0
               /\ handles[last.h].data_ref = PlainNode(last.path)
         /\ (n.node_type = "Device" /\ d # 0 /\ devmgr.devices[d].dtype = n.dev.dtype) =>
               last.res.kind = "Ok"
         /\ n.node_type \in {"Dir", "SymLink"} => last.res = ErrR("NotAFile")


----------------------------------------------------------------------------
(* Mount points in every spelling, with a directory /m and a file /f *)

MountPoints ==
  { <<>>, <<"/">>, <<"/", "/">>,
    <<"m">>, <<"/", "m">>, <<"/", "m", "/">>,
    <<"/", "m", "/", "d">>, <<"m", "/", "d">>,
    <<"/", "f", "/", "d">>, <<"/", "f", "/", "d", "/">>,
    <<"/", "x", "/", "d">> }

NextMountPoint ==
  \/ CreateDir(P_m) /\ UNCHANGED <<rt, thr, ld, bc>>
  \/ CreateFile(P_f) /\ UNCHANGED <<rt, thr, ld, bc>>
  \/ \E p \in MountPoints, t \in {"memfs", "ext2"} : Mount(p, t) /\ UNCHANGED <<rt, thr, ld, bc>>
  \/ \E p \in {P_m, P_md, P_f} : Lookup(p) /\ UNCHANGED <<rt, thr, ld, bc>>

SpecMountPoint == Init /\ [][NextMountPoint]_vars

\* C14: a mount with an fs_type the registry does not have fails with
\* FsTypeNotSupported; and a mount that returns an error, whichever it is, leaves the
\* mount table as it was.
C14_FailedMountLeavesTable ==
  [][ last'.op = "mount" =>
        /\ last'.typ \notin FsRegistry => last'.res = ErrR("FsTypeNotSupported")
        /\ last'.res.kind # "Ok" => mounts' = mounts
        /\ last'.res.kind = "Ok" => Len(mounts') = Len(mounts) + 1 ]_vars

\* a mount under a file was refused with one entry already in the table
C14_Witness ==
  /\ last.op = "mount" /\ last.typ = "memfs"
  /\ last.res = ErrR("NotADirectory")
  /\ Len(mounts) = 1


\* the path of the directory that holds the mount point: the mount point without its
\* last component, whatever slashes it was written with
ParentOfMountPoint(mp) ==
  LET parts == KeepParts(Split(mp, "/"))
  IN  <<"/">> \o Join(SubSeq(parts, 1, Len(parts) - 1), "/")

\* what the claim says of a mount whose mount point is not the literal root
ParentRule ==
  LET parent == VfsLookup(ParentOfMountPoint(last'.path))
  IN  /\ last'.res.kind = "Ok" =>
            (parent.kind = "Ok" /\ nodes[parent.val].node_type = "Dir")
      /\ (parent.kind = "Ok" /\ nodes[parent.val].node_type # "Dir") =>
            last'.res = ErrR("NotADirectory")
      /\ parent.kind # "Ok" => last'.res = parent

TableWellFormed ==
  \A i \in 1..Len(mounts) :
     /\ mounts[i].path # <<>>
     /\ Head(mounts[i].path) # "/"
     /\ mounts[i].path[Len(mounts[i].path)] # "/"
     /\ mounts[i].mount_point_len = Len(mounts[i].path)
     /\ mounts[i].root # ROOT

\* C16 (as claimed): a mount at a mount point that is empty once its leading and
\* trailing slashes are stripped ("", "/", "//") is rejected with InvalidArgument, and
\* the mount table holds well-formed entries only.
C16_EmptyMountPointInvalidArgument ==
  /\ (last.op = "mount" /\ TrimMatches(last.path, "/") = <<>>) =>
        last.res = ErrR("InvalidArgument")
  /\ TableWellFormed

\* C16 amended: such a mount is always rejected, with InvalidArgument when the
\* fs_type is registered and with FsTypeNotSupported when it is not, and the mount
\* table holds well-formed entries only.
C16_EmptyMountPointRejected ==
  /\ (last.op = "mount" /\ TrimMatches(last.path, "/") = <<>>) =>
        last.res = IF last.typ \in FsRegistry THEN ErrR("InvalidArgument")
                   ELSE ErrR("FsTypeNotSupported")
  /\ TableWellFormed

\* a memfs mount at "//" was refused while the table holds an entry
C16_Witness ==
  /\ last.op = "mount" /\ last.typ = "memfs"
  /\ last.path = <<"/", "/">>
  /\ last.res = ErrR("InvalidArgument")
  /\ Len(mounts) > 0


----------------------------------------------------------------------------
(* Vfs::mount and Vfs::lookup statement by statement, with the guards a thread holds *)

\* the locks shared by every path: Vfs.mounts and DEVICE_MANAGER (spin::Mutex)
MOUNTS == "mounts"
DEVMGR == "DEVICE_MANAGER"

\* spin::Mutex::lock returns only when no thread, the caller included, holds the lock
Free(lock) == \A u \in Threads : lock \notin thr[u].held

\* entries.read() of directory id returns for thread t: no other thread holds the
\* write guard of these entries
EntriesFree(t, id) == \A u \in Threads \ {t} : thr[u].wlock # id

\* a call of path_to_vnode(path, depth) that has not run yet
Frame(path, depth) ==
  [path |-> path, depth |-> depth, locked |-> FALSE, current |-> 0, comps |-> <<>>,
   pending |-> 0, res |-> OkR(0)]

Top(t) == thr[t].stack[Len(thr[t].stack)]

SetTop(t, f) == [thr[t].stack EXCEPT ![Len(thr[t].stack)] = f]

\* a step of thread t that touches nothing but the thread
ThreadStep(t, new) ==
  /\ thr' = [thr EXCEPT ![t] = new]
  /\ UNCHANGED <<nodes, next_inode_id, mounts, handles, devmgr, last, hung, rt, ld, bc>>

\* Vfs::lookup(path) is called: path_to_vnode(path, 0)
LookupCall(t, path) ==
  /\ thr[t].pc = "idle"
  /\ ThreadStep(t, [Idle EXCEPT !.pc = "ptv_enter", !.op = "lookup", !.path = path,
                                !.stack = <<Frame(path, 0)>>])

\* path_to_vnode up to the lock: the depth check and the empty path
PtvEnter(t) ==
  /\ thr[t].pc = "ptv_enter"
  /\ LET f == Top(t)
         p == TrimMatches(NormalizePath(f.path), "/")
     IN  IF f.depth > MAX_SYMLINK_DEPTH
         THEN ThreadStep(t, [thr[t] EXCEPT !.pc = "ptv_ret",
                               !.stack = SetTop(t, [f EXCEPT !.res = ErrR("MaxSymlinkDepth")])])
         ELSE IF p = <<>>
         THEN ThreadStep(t, [thr[t] EXCEPT !.pc = "ptv_ret",
                               !.stack = SetTop(t, [f EXCEPT !.res = OkR(ROOT)])])
         ELSE ThreadStep(t, [thr[t] EXCEPT !.pc = "ptv_lock"])

\* let mounts = self.mounts.lock(), and the choice of the mount under it
PtvLock(t) ==
  /\ thr[t].pc = "ptv_lock"
  /\ Free(MOUNTS)
  /\ LET f == Top(t)
         p == TrimMatches(NormalizePath(f.path), "/")
         m == SelectMount(p)
         subpath == TrimMatches(SubSeq(p, mounts[m].mount_point_len + 1, Len(p)), "/")
         g == IF m = 0
              THEN [f EXCEPT !.locked = TRUE, !.current = ROOT, !.comps = Split(p, "/")]
              ELSE IF subpath = <<>>
              THEN [f EXCEPT !.locked = TRUE, !.pending = mounts[m].root]
              ELSE [f EXCEPT !.locked = TRUE, !.current = mounts[m].root,
                             !.comps = Split(subpath, "/")]
     IN  ThreadStep(t, [thr[t] EXCEPT !.pc = "ptv_walk", !.held = @ \cup {MOUNTS},
                                      !.stack = SetTop(t, g)])

\* one turn of the component loop: current.lookup(component)
PtvStep(t) ==
  /\ thr[t].pc = "ptv_walk"
  /\ Top(t).pending = 0
  /\ (Top(t).comps # <<>> /\ Head(Top(t).comps) \notin {<<>>, DOT}) =>
        EntriesFree(t, Top(t).current)
  /\ LET f == Top(t)
     IN  IF f.comps = <<>>
         THEN ThreadStep(t, [thr[t] EXCEPT !.pc = "ptv_ret",
                               !.stack = SetTop(t, [f EXCEPT !.res = OkR(f.current)])])
         ELSE IF Head(f.comps) = <<>> \/ Head(f.comps) = DOT
         THEN ThreadStep(t, [thr[t] EXCEPT
                               !.stack = SetTop(t, [f EXCEPT !.comps = Tail(f.comps)])])
         ELSE LET found == NodeLookup(f.current, Head(f.comps))
              IN  IF found.kind # "Ok"
                  THEN ThreadStep(t, [thr[t] EXCEPT !.pc = "ptv_ret",
                                        !.stack = SetTop(t, [f EXCEPT !.res = found])])
                  ELSE ThreadStep(t, [thr[t] EXCEPT
                                        !.stack = SetTop(t, [f EXCEPT !.pending = found.val,
                                                                      !.comps = Tail(f.comps)])])

\* resolve_symlink_if_needed on the node just found: a link calls path_to_vnode again
PtvResolve(t) ==
  /\ thr[t].pc = "ptv_walk"
  /\ Top(t).pending # 0
  /\ LET f == Top(t)
     IN  IF nodes[f.pending].node_type = "SymLink"
         THEN ThreadStep(t, [thr[t] EXCEPT !.pc = "ptv_enter",
                               !.stack = Append(@, Frame(ReadSymlink(f.pending), f.depth + 1))])
         ELSE ThreadStep(t, [thr[t] EXCEPT
                               !.stack = SetTop(t, [f EXCEPT !.current = f.pending,
                                                             !.pending = 0])])

\* path_to_vnode returns: its guard of self.mounts is dropped, the caller goes on
PtvRet(t) ==
  /\ thr[t].pc = "ptv_ret"
  /\ LET f == Top(t)
         rest == SubSeq(thr[t].stack, 1, Len(thr[t].stack) - 1)
         held == IF f.locked THEN thr[t].held \ {MOUNTS} ELSE thr[t].held
         caller == rest[Len(rest)]
     IN  IF rest = <<>>
         THEN ThreadStep(t, [thr[t] EXCEPT !.stack = rest, !.held = held, !.res = f.res,
                               !.pc = IF thr[t].op = "mount" THEN "mount_parent" ELSE "return"])
         ELSE IF f.res.kind # "Ok"
         THEN ThreadStep(t, [thr[t] EXCEPT !.held = held,
                               !.stack = [rest EXCEPT ![Len(rest)] =
                                            [caller EXCEPT !.res = f.res]]])
         ELSE ThreadStep(t, [thr[t] EXCEPT !.held = held, !.pc = "ptv_walk",
                               !.stack = [rest EXCEPT ![Len(rest)] =
                                            [caller EXCEPT !.current = f.res.val,
                                                           !.pending = 0]]])


\* Vfs::mount(None, mount_point, fs_type, None) is called
MountCall(t, mount_point, fs_type) ==
  /\ thr[t].pc = "idle"
  /\ next_inode_id <= MaxNodes
  /\ Len(mounts) < MaxMounts
  /\ ThreadStep(t, [Idle EXCEPT !.pc = "mount_registry", !.op = "mount",
                                !.path = mount_point, !.typ = fs_type])

\* self.fs_registry.read().get(fs_type)
MountRegistry(t) ==
  /\ thr[t].pc = "mount_registry"
  /\ IF thr[t].typ \in FsRegistry
     THEN ThreadStep(t, [thr[t] EXCEPT !.pc = "mount_devmgr"])
     ELSE ThreadStep(t, [thr[t] EXCEPT !.pc = "return", !.res = ErrR("FsTypeNotSupported")])

\* let device_manager = DEVICE_MANAGER.read(): the guard lives to the end of mount
\* (the drop that follows it in the source is commented out)
MountLockDeviceManager(t) ==
  /\ thr[t].pc = "mount_devmgr"
  /\ Free(DEVMGR)
  /\ ThreadStep(t, [thr[t] EXCEPT !.pc = "mount_fs", !.held = @ \cup {DEVMGR}])

\* fs.mount(device, args): MemFs::mount makes the new root; then the parent path
MountFs(t) ==
  /\ thr[t].pc = "mount_fs"
  /\ LET r == RsplitOnce(thr[t].path, "/")
         hasParent == thr[t].path # <<"/">> /\ r.some
     IN  thr' = [thr EXCEPT ![t] =
                   IF hasParent
                   THEN [@ EXCEPT !.pc = "ptv_enter", !.root = next_inode_id,
                                  !.stack = <<Frame(r.before, 0)>>]
                   ELSE [@ EXCEPT !.pc = "mount_normalize", !.root = next_inode_id]]
  /\ nodes' = (next_inode_id :> NewDir) @@ nodes
  /\ next_inode_id' = next_inode_id + 1
  /\ UNCHANGED <<mounts, handles, devmgr, last, hung, rt, ld, bc>>

\* self.lookup(parent_path_str)? has returned: the node_type check
MountParent(t) ==
  /\ thr[t].pc = "mount_parent"
  /\ IF thr[t].res.kind # "Ok"
     THEN ThreadStep(t, [thr[t] EXCEPT !.pc = "return"])
     ELSE IF nodes[thr[t].res.val].node_type # "Dir"
     THEN ThreadStep(t, [thr[t] EXCEPT !.pc = "return", !.res = ErrR("NotADirectory")])
     ELSE ThreadStep(t, [thr[t] EXCEPT !.pc = "mount_normalize"])

\* mount_point.trim_matches('/') and the check that it is not empty
MountNormalize(t) ==
  /\ thr[t].pc = "mount_normalize"
  /\ IF TrimMatches(thr[t].path, "/") = <<>>
     THEN ThreadStep(t, [thr[t] EXCEPT !.pc = "return", !.res = ErrR("InvalidArgument")])
     ELSE ThreadStep(t, [thr[t] EXCEPT !.pc = "mount_push"])

\* self.mounts.lock().push(..): the guard is a temporary of this statement
MountPush(t) ==
  /\ thr[t].pc = "mount_push"
  /\ Free(MOUNTS)
  /\ LET normalized == TrimMatches(thr[t].path, "/")
     IN  mounts' = Append(mounts, [path |-> normalized,
                                   mount_point_len |-> Len(normalized),
                                   root |-> thr[t].root])
  /\ thr' = [thr EXCEPT ![t] = [@ EXCEPT !.pc = "return", !.res = OkR(0)]]
  /\ UNCHANGED <<nodes, next_inode_id, handles, devmgr, last, hung, rt, ld, bc>>

\* the call returns: the guards still held are dropped, and so is a root that was
\* not pushed
Return(t) ==
  /\ thr[t].pc = "return"
  /\ thr' = [thr EXCEPT ![t] = Idle]
  /\ nodes' = IF thr[t].op = "mount" /\ thr[t].res.kind # "Ok" /\ thr[t].root # 0
              THEN [d \in (DOMAIN nodes) \ {thr[t].root} |-> nodes[d]]
              ELSE nodes
  /\ last' = [NoCall EXCEPT !.op = thr[t].op, !.path = thr[t].path, !.typ = thr[t].typ,
                            !.res = thr[t].res]
  /\ UNCHANGED <<next_inode_id, mounts, handles, devmgr, hung, rt, ld, bc>>

P_am == <<"/", "a", "/", "m">>

\* create_dir and create_symlink look their parent up under self.mounts too
NextThreads ==
  \/ Free(MOUNTS) /\ CreateDir(P_a) /\ UNCHANGED <<rt, thr, ld, bc>>
  \/ Free(MOUNTS) /\ CreateSymlink(P_a, P_l) /\ UNCHANGED <<rt, thr, ld, bc>>
  \/ \E t \in Threads, p \in {P_l, P_am} : LookupCall(t, p)
  \/ \E t \in Threads, p \in {P_am, P_root}, f \in {"memfs", "ext2"} : MountCall(t, p, f)
  \/ \E t \in Threads : PtvEnter(t)
  \/ \E t \in Threads : PtvLock(t)
  \/ \E t \in Threads : PtvStep(t)
  \/ \E t \in Threads : PtvResolve(t)
  \/ \E t \in Threads : PtvRet(t)
  \/ \E t \in Threads : MountRegistry(t)
  \/ \E t \in Threads : MountLockDeviceManager(t)
  \/ \E t \in Threads : MountFs(t)
  \/ \E t \in Threads : MountParent(t)
  \/ \E t \in Threads : MountNormalize(t)
  \/ \E t \in Threads : MountPush(t)
  \/ \E t \in Threads : Return(t)

SpecThreads == Init /\ [][NextThreads]_vars

\* C17 (as claimed): a thread in Vfs::mount never holds the guard of DEVICE_MANAGER
\* while it acquires, or holds, the lock of the mount table.
C17_DeviceManagerReleasedBeforeMounts ==
  \A t \in Threads :
     (thr[t].op = "mount" /\ DEVMGR \in thr[t].held) =>
        /\ thr[t].pc \notin {"ptv_lock", "mount_push"}
        /\ MOUNTS \notin thr[t].held

\* C18 (as claimed): during a path resolution the lock of the mount table is not held
\* while the components are walked, nor while the target of a link is resolved by
\* the recursive call.
C18_NoTreeWideLockDuringWalk ==
  \A t \in Threads :
     (thr[t].pc = "ptv_walk" \/ Len(thr[t].stack) > 1) => MOUNTS \notin thr[t].held


----------------------------------------------------------------------------
(* Renaming and moving entries *)

\* MemVNode::rename called on node id
DirRename(id, old_name, new_name) ==
  LET out == NodeRename(id, old_name, new_name)
  IN  /\ ~hung
      /\ nodes' = out.nodes
      /\ last' = [NoCall EXCEPT !.op = "node_rename", !.node = id, !.arg = old_name,
                                !.to = new_name, !.res = out.res]
      /\ UNCHANGED <<next_inode_id, mounts, handles, devmgr, hung>>

\* Vfs::rename_move; the call remembers the node the old path named in its parent
RenameMove(old_path, new_path) ==
  LET out == VfsRenameMove(old_path, new_path)
      o == SplitPath(old_path)
      old_parent == VfsLookup(o.parent)
      named == IF o.ok /\ old_parent.kind = "Ok"
                  /\ NodeLookup(old_parent.val, o.name).kind = "Ok"
               THEN NodeLookup(old_parent.val, o.name).val ELSE 0
  IN  /\ ~hung
      /\ nodes' = out.nodes
      /\ last' = [NoCall EXCEPT !.op = "rename_move", !.path = old_path, !.to = new_path,
                                !.node = named, !.res = out.res]
      /\ hung' = (out.res.kind = "Hang")
      /\ UNCHANGED <<next_inode_id, mounts, handles, devmgr>>

P_af == <<"/", "a", "/", "f">>
P_b == <<"/", "b">>
P_abf == <<"/", "a", "/", "b", "/", "f">>
P_a_dot_f == <<"/", "a", "/", ".", "/", "f">>

RenameNames == {<<"a">>, <<"b">>, <<"f">>}
RenamePaths == {P_a, P_b, P_f, P_ab, P_af, P_abf, P_a_dot_f}

\* the number of nodes the rename runs create
RenameBudget == MaxNodes - 3

NextRename ==
  \/ \E p \in {P_a, P_ab} :
        next_inode_id <= RenameBudget /\ CreateDir(p) /\ UNCHANGED <<rt, thr, ld, bc>>
  \/ \E p \in {P_f, P_af} :
        next_inode_id <= RenameBudget /\ CreateFile(p) /\ UNCHANGED <<rt, thr, ld, bc>>
  \/ \E id \in DOMAIN nodes, o \in RenameNames, n \in RenameNames :
        DirRename(id, o, n) /\ UNCHANGED <<rt, thr, ld, bc>>
  \/ \E o \in RenamePaths, n \in RenamePaths : RenameMove(o, n) /\ UNCHANGED <<rt, thr, ld, bc>>
  \/ \E p \in RenamePaths : Lookup(p) /\ UNCHANGED <<rt, thr, ld, bc>>

SpecRename == Init /\ [][NextRename]_vars

\* C19: rename(old, new) on a directory fails with NotFound when it has no entry old,
\* with AlreadyExists when it has an entry new, and changes nothing in both cases;
\* otherwise new names the node old named, old is gone, and no other entry of any
\* directory has changed.
C19_RenameWithinDirectory ==
  [][ (last'.op = "node_rename" /\ nodes[last'.node].node_type = "Dir") =>
        LET d == last'.node
            old == last'.arg
            new == last'.to
        IN  IF ~ContainsKey(d, old)
            THEN last'.res = ErrR("NotFound") /\ nodes' = nodes
            ELSE IF ContainsKey(d, new)
            THEN last'.res = ErrR("AlreadyExists") /\ nodes' = nodes
            ELSE /\ last'.res.kind = "Ok"
                 /\ nodes'[d].entries =
                      {e \in nodes[d].entries : e[1] # old} \cup {<<new, GetEntry(d, old)>>}
                 /\ \A e \in nodes'[d].entries : e[1] # old
                 /\ DOMAIN nodes' = DOMAIN nodes
                 /\ \A x \in DOMAIN nodes : x # d => nodes'[x] = nodes[x] ]_vars

\* /a/b has just been renamed to /a/f, next to nothing else in /a
C19_Witness ==
  /\ last.op = "node_rename" /\ last.res.kind = "Ok"
  /\ last.node # ROOT
  /\ last.arg = <<"b">> /\ last.to = <<"f">>
  /\ ContainsKey(last.node, <<"f">>) /\ ~ContainsKey(last.node, <<"b">>)
  /\ nodes[GetEntry(last.node, <<"f">>)].node_type = "Dir"


\* the parent directory a path names, 0 when the path does not split or the parent is
\* no directory
ParentDir(path) ==
  LET sp == SplitPath(path)
      r == IF sp.ok THEN VfsLookup(sp.parent) ELSE ErrR("InvalidPath")
  IN  IF r.kind = "Ok" /\ nodes[r.val].node_type = "Dir" THEN r.val ELSE 0

\* a rename_move call between two different parent directories
BetweenParents(c) ==
  /\ c.op = "rename_move"
  /\ SplitPath(c.path).ok /\ SplitPath(c.to).ok
  /\ SplitPath(c.path).parent # SplitPath(c.to).parent

\* C20: rename_move(old_path, new_path) between two different parent directories fails
\* with NotImplemented, changing nothing, if a parent is not a MemVNode; fails with
\* NotFound if the source name is absent and with AlreadyExists if the target name is
\* present, changing nothing; otherwise afterwards lookup(old_path) is NotFound,
\* lookup(new_path) returns the very node that old_path named, and no other entry of
\* either directory changed.  (Every node of the model is a MemVNode.)
C20_RenameMoveBetweenDirectories ==
  /\ [](BetweenParents(last) /\ last.res.kind = "Ok" =>
          /\ VfsLookup(last.path) = ErrR("NotFound")
          /\ VfsLookup(last.to) = OkR(last.node))
  /\ [][ (BetweenParents(last') /\ ParentDir(last'.path) # 0 /\ ParentDir(last'.to) # 0) =>
           LET s == ParentDir(last'.path)
               t == ParentDir(last'.to)
               old == SplitPath(last'.path).name
               new == SplitPath(last'.to).name
           IN  IF ~ContainsKey(s, old)
               THEN last'.res = ErrR("NotFound") /\ nodes' = nodes
               ELSE IF ContainsKey(t, new)
               THEN last'.res = ErrR("AlreadyExists") /\ nodes' = nodes
               ELSE /\ last'.res.kind = "Ok"
                    /\ last'.node = GetEntry(s, old)
                    /\ {e \in nodes'[s].entries : e[1] # new} =
                         {e \in nodes[s].entries : e[1] # old /\ e[1] # new}
                    /\ {e \in nodes'[t].entries : e[1] # new} =
                         {e \in nodes[t].entries : e[1] # new /\ (s = t => e[1] # old)}
                    /\ <<new, GetEntry(s, old)>> \in nodes'[t].entries ]_vars

----------------------------------------------------------------------------
(* Device nodes: MemVNode::open and KernInode::read_at / write_at *)

\* MemVNode::open on a Device node storing dev: [res, dm, io]; Device::open counts the
\* open on the manager's device, the driver's own open succeeds
NodeOpenDevice(dev) ==
  LET d == GetDeviceByMajorMinor(dev.major, dev.minor)
  IN  IF d = 0 THEN [res |-> ErrR("DeviceNotFound"), dm |-> devmgr, io |-> 0]
      ELSE IF devmgr.devices[d].dtype # dev.dtype
      THEN [res |-> ErrR("InvalidArgument"), dm |-> devmgr, io |-> 0]
      ELSE [res |-> OkR(0),
            dm |-> [devmgr EXCEPT !.devices[d].open_count = @ + 1],
            io |-> d]

\* KernInode::read_at on a Device node storing dev: [res, io]; a character driver
\* fills the whole buffer
KernReadAt(dev, n) ==
  LET d == GetDeviceByMajorMinor(dev.major, dev.minor)
  IN  IF d = 0 THEN [res |-> ErrR("NoSuchDevice"), io |-> 0]
      ELSE IF devmgr.devices[d].dtype # dev.dtype
      THEN [res |-> ErrR("InvalidArgument"), io |-> 0]
      ELSE IF devmgr.devices[d].dtype = "Char" THEN [res |-> OkR(n), io |-> d]
      ELSE [res |-> ErrR("NotImplemented"), io |-> 0]

\* KernInode::write_at on a Device node storing dev (`dev_type: _`): [res, io]
KernWriteAt(dev, n) ==
  LET d == GetDeviceByMajorMinor(dev.major, dev.minor)
  IN  IF d = 0 THEN [res |-> ErrR("NoSuchDevice"), io |-> 0]
      ELSE IF devmgr.devices[d].dtype = "Char" THEN [res |-> OkR(n), io |-> d]
      ELSE [res |-> ErrR("NotImplemented"), io |-> 0]

\* a call that touches only the Device Manager
DeviceCall(op, dev, r, dm, io) ==
  /\ ~hung
  /\ devmgr' = dm
  /\ last' = [NoCall EXCEPT !.op = op, !.dev = dev, !.res = r, !.io = io]
  /\ UNCHANGED <<nodes, next_inode_id, mounts, handles, hung>>

\* DEVICE_MANAGER.lock().register_device(device)
RegisterDevice(device) ==
  LET r == RegisterDeviceOp(devmgr, device)
  IN  DeviceCall("register_device", NoDev, r.res, r.dm, 0)

\* DEVICE_MANAGER.lock().unregister_device(name)
UnregisterDevice(name) ==
  LET r == UnregisterDeviceOp(devmgr, name)
  IN  DeviceCall("unregister_device", NoDev, r.res, r.dm, 0)

\* open() on the MemVNode Device node id
OpenDeviceNode(id) ==
  LET r == NodeOpenDevice(nodes[id].dev)
  IN  /\ nodes[id].node_type = "Device"
      /\ DeviceCall("open", nodes[id].dev, r.res, r.dm, r.io)

\* read_at(0, buf) on a KernInode::new_device(dev.major, dev.minor, dev.dtype)
ReadAtDevice(dev, n) ==
  LET r == KernReadAt(dev, n)
  IN  DeviceCall("read_at", dev, r.res, devmgr, r.io)

\* write_at(0, buf) on a KernInode::new_device(dev.major, dev.minor, dev.dtype)
WriteAtDevice(dev, n) ==
  LET r == KernWriteAt(dev, n)
  IN  DeviceCall("write_at", dev, r.res, devmgr, r.io)

\* a block device next to the serial port, and a second character device
DiskDev == [name |-> "disk", major |-> 2, minor |-> 0, dtype |-> "Block", open_count |-> 0]
TtyDev == [name |-> "tty", major |-> 0, minor |-> 0, dtype |-> "Char", open_count |-> 0]
DevicePool == {SerialDev, DiskDev, TtyDev}

\* what a Device node can store
DevKeys == [major : {1, 2}, minor : {0, 1}, dtype : {"Char", "Block"}]

\* the number of opens a device counts, and of minors a major has free, in these runs
OpenBudget == MaxHandles - 1

NextDevice ==
  \/ \E d \in DevicePool : RegisterDevice(d) /\ UNCHANGED <<rt, thr, ld, bc>>
  \/ \E d \in DevicePool :
        /\ \A e \in devmgr.free_minors : Len(e[2]) < OpenBudget
        /\ UnregisterDevice(d.name) /\ UNCHANGED <<rt, thr, ld, bc>>
  \/ \E k \in DevKeys :
        next_inode_id <= ROOT + 1 /\ DirCreateDevice(ROOT, <<"t">>, k) /\ UNCHANGED <<rt, thr, ld, bc>>
  \/ \E id \in DOMAIN nodes :
        /\ \A i \in 1..Len(devmgr.devices) : devmgr.devices[i].open_count < OpenBudget
        /\ OpenDeviceNode(id) /\ UNCHANGED <<rt, thr, ld, bc>>
  \/ \E k \in DevKeys : ReadAtDevice(k, MaxFileLen) /\ UNCHANGED <<rt, thr, ld, bc>>
  \/ \E k \in DevKeys : WriteAtDevice(k, MaxFileLen) /\ UNCHANGED <<rt, thr, ld, bc>>

SpecDevice == Init /\ [][NextDevice]_vars

\* C21: every open, read_at and write_at on a Device node looks the device up by
\* (major, minor) in the Device Manager, fails when no such device is registered, and
\* fails with InvalidArgument when the live device's type differs from the type the
\* node stores; in those failure cases no I/O is forwarded to any device.
C21_DeviceNodeChecksLiveDevice ==
  last.op \in {"open", "read_at", "write_at"} /\ last.dev # NoDev =>
    LET d == GetDeviceByMajorMinor(last.dev.major, last.dev.minor)
    IN  /\ d = 0 => last.res.kind = "Err" /\ last.io = 0
        /\ (d # 0 /\ devmgr.devices[d].dtype # last.dev.dtype) =>
              last.res = ErrR("InvalidArgument") /\ last.io = 0


----------------------------------------------------------------------------
(* normalize_path on its own *)

\* normalize_path(path), as path_to_vnode and mount call it
Normalize(path) ==
  /\ ~hung
  /\ last' = [NoCall EXCEPT !.op = "normalize_path", !.path = path,
                            !.arg = NormalizePath(path)]
  /\ UNCHANGED <<nodes, next_inode_id, mounts, handles, devmgr, hung>>

\* normalize_path applied to the string the last call returned
NormalizeAgain ==
  /\ last.op = "normalize_path"
  /\ Normalize(last.arg)

PathChars == {"/", ".", "a", "b"}
PathStrings == UNION {[1..n -> PathChars] : n \in 0..MaxPathLen}

\* the function keeps no state: each run makes one call and feeds its result back
NextNormalize ==
  \/ \E p \in PathStrings : last.op = "none" /\ Normalize(p) /\ UNCHANGED <<rt, thr, ld, bc>>
  \/ NormalizeAgain /\ UNCHANGED <<rt, thr, ld, bc>>

SpecNormalize == Init /\ [][NextNormalize]_vars

RECURSIVE Retained(_, _)
\* the segments of parts that no later ".." removes, read from the last segment to the
\* first; skip counts the ".." met that have removed nothing yet
Retained(parts, skip) ==
  IF parts = <<>> THEN <<>>
  ELSE LET x == parts[Len(parts)]
           front == SubSeq(parts, 1, Len(parts) - 1)
       IN  IF x = DOTDOT THEN Retained(front, skip + 1)
           ELSE IF x = <<>> \/ x = DOT THEN Retained(front, skip)
           ELSE IF skip > 0 THEN Retained(front, skip - 1)
           ELSE Append(Retained(front, skip), x)

\* C22: normalize_path returns, for every input string, a canonical absolute path: it
\* starts with '/', has no empty, '.' or '..' segment and no trailing slash unless it
\* is exactly "/"; each ".." removes the last retained segment and is ignored when
\* none is retained; normalizing the result returns it unchanged.
C22_NormalizePathCanonical ==
  last.op = "normalize_path" =>
    LET r == last.arg
        segs == Split(Tail(r), "/")
    IN  /\ r # <<>> /\ Head(r) = "/"
        /\ r # <<"/">> =>
              /\ r[Len(r)] # "/"
              /\ \A i \in 1..Len(segs) : segs[i] \notin {<<>>, DOT, DOTDOT}
        /\ r = <<"/">> \o Join(Retained(Split(last.path, "/"), 0), "/")
        /\ NormalizePath(r) = r

\* "a/../b" has been normalized to "/b"
C22_Witness ==
  /\ last.op = "normalize_path"
  /\ last.path = <<"a", "/", ".", ".", "/", "b">>
  /\ last.arg = <<"/", "b">>


----------------------------------------------------------------------------
(* Walking paths with missing and non-directory components *)

ReadDir(path) ==
  LET r == VfsReadDir(path)
  IN  /\ ~hung
      /\ last' = [NoCall EXCEPT !.op = "read_dir", !.path = path, !.res = r.res,
                                !.names = r.names]
      /\ hung' = (r.res.kind = "Hang")
      /\ UNCHANGED <<nodes, next_inode_id, mounts, handles, devmgr>>

P_fx == <<"/", "f", "/", "x">>
P_xy == <<"/", "x", "/", "y">>
P_abx == <<"/", "a", "/", "b", "/", "x">>
P_a_up_f == <<"/", "a", "/", ".", ".", "/", "f">>

WalkPaths == {P_a, P_f, P_ab, P_fx, P_xy, P_abx, P_a_up_f}

\* the number of nodes the walking runs create
WalkBudget == MaxNodes - 1

NextWalk ==
  \/ \E p \in WalkPaths :
        next_inode_id <= WalkBudget /\ CreateFile(p) /\ UNCHANGED <<rt, thr, ld, bc>>
  \/ \E p \in WalkPaths :
        next_inode_id <= WalkBudget /\ CreateDir(p) /\ UNCHANGED <<rt, thr, ld, bc>>
  \/ next_inode_id <= WalkBudget /\ CreateSymlink(P_a, P_ab) /\ UNCHANGED <<rt, thr, ld, bc>>
  \/ \E p \in WalkPaths : Remove(p) /\ UNCHANGED <<rt, thr, ld, bc>>
  \/ \E p \in WalkPaths : Lookup(p) /\ UNCHANGED <<rt, thr, ld, bc>>
  \/ \E p \in WalkPaths :
        Len(handles) < OpenBudget /\ Open(p) /\ UNCHANGED <<rt, thr, ld, bc>>
  \/ \E p \in WalkPaths : ReadDir(p) /\ UNCHANGED <<rt, thr, ld, bc>>

SpecWalk == Init /\ [][NextWalk]_vars

\* the operations that walk their whole path, and those that walk the parent's
WalkWhole == {"lookup", "open", "read_dir"}
WalkParent == {"create_file", "create_dir", "create_symlink", "remove"}

\* the components a call walks: of its path, or of the parent part of its path
Walked(c) ==
  Retained(Split(IF c.op \in WalkWhole THEN c.path ELSE SplitPath(c.path).parent, "/"), 0)

\* what stops a walk of comps from the root: "NotFound" at the first component missing
\* from a directory, "NotADirectory" at the first component looked up in a file,
\* "SymLink" when the walk has to follow a link first, "None" when nothing stops it
WalkFailure(comps) ==
  LET bad == {k \in 1..Len(comps) : PlainWalk(ROOT, SubSeq(comps, 1, k)) = 0}
  IN  IF bad = {} THEN "None"
      ELSE LET k == CHOOSE i \in bad : \A j \in bad : i <= j
               at == nodes[PlainWalk(ROOT, SubSeq(comps, 1, k - 1))].node_type
           IN  IF at = "Dir" THEN "NotFound"
               ELSE IF at = "SymLink" THEN "SymLink"
               ELSE "NotADirectory"

\* C23: a Vfs operation that walks a path (lookup, open, read_dir; create_file,
\* create_dir, create_symlink and remove for the parent) fails with NotFound when a
\* component of the walked path is missing and with NotADirectory when a non-terminal
\* component, or the parent of a create or remove, is not a directory; that failure is
\* returned as it is and no directory has been modified, so no missing parent is created.
C23_WalkFailurePropagates ==
  [][ (last'.op \in WalkWhole \/ (last'.op \in WalkParent /\ SplitPath(last'.path).ok)) =>
        LET comps == Walked(last')
            f == WalkFailure(comps)
            end == PlainWalk(ROOT, comps)
        IN  /\ f \in {"NotFound", "NotADirectory"} =>
                 last'.res = ErrR(f) /\ nodes' = nodes
            /\ (f = "None" /\ last'.op \in WalkParent
                  /\ nodes[end].node_type \notin {"Dir", "SymLink"}) =>
                 last'.res = ErrR("NotADirectory") /\ nodes' = nodes ]_vars

\* create_file("/a/b/x") has just failed with NotFound for want of /a/b, in a tree
\* that has /a, and a create under the file /f has failed with NotADirectory before
C23_Witness ==
  /\ last.op = "create_file" /\ last.path = P_abx
  /\ last.res = ErrR("NotFound")
  /\ PlainNode(P_a) # 0 /\ PlainNode(P_ab) = 0
  /\ PlainNode(P_f) # 0 /\ nodes[PlainNode(P_f)].node_type = "File"


----------------------------------------------------------------------------
(* Every node operation on every node variant *)

\* MemVNode::open: [res, handle, dm, io]
NodeOpen(id) ==
  IF nodes[id].node_type = "File"
  THEN [res |-> NodeOpenFile(id).res, handle |-> NodeOpenFile(id).handle,
        dm |-> devmgr, io |-> 0]
  ELSE IF nodes[id].node_type = "Device"
  THEN [res |-> NodeOpenDevice(nodes[id].dev).res, handle |-> <<>>,
        dm |-> NodeOpenDevice(nodes[id].dev).dm, io |-> NodeOpenDevice(nodes[id].dev).io]
  ELSE [res |-> ErrR("NotAFile"), handle |-> <<>>, dm |-> devmgr, io |-> 0]

\* MemVNode::read_symlink: [res, target]
NodeReadSymlink(id) ==
  IF nodes[id].node_type = "SymLink"
  THEN [res |-> OkR(0), target |-> nodes[id].target]
  ELSE [res |-> ErrR("NotAFile"), target |-> <<>>]

\* open() on node id; the handle of a device is kept by the caller, not in `handles`
NodeOpenCall(id) ==
  LET o == NodeOpen(id)
  IN  /\ ~hung
      /\ handles' = IF o.handle # <<>> THEN Append(handles, o.handle) ELSE handles
      /\ devmgr' = o.dm
      /\ last' = [NoCall EXCEPT !.op = "node_open", !.node = id, !.res = o.res,
                                !.dev = nodes[id].dev, !.io = o.io,
                                !.h = IF o.handle # <<>> THEN o.res.val ELSE 0]
      /\ UNCHANGED <<nodes, next_inode_id, mounts, hung>>

\* read_symlink() on node id
NodeReadSymlinkCall(id) ==
  LET r == NodeReadSymlink(id)
  IN  /\ ~hung
      /\ last' = [NoCall EXCEPT !.op = "node_read_symlink", !.node = id, !.res = r.res,
                                !.arg = r.target]
      /\ UNCHANGED <<nodes, next_inode_id, mounts, handles, devmgr, hung>>

\* read_dir() on node id
NodeReadDirCall(id) ==
  LET r == NodeReadDir(id)
  IN  /\ ~hung
      /\ last' = [NoCall EXCEPT !.op = "node_read_dir", !.node = id, !.res = r.res,
                                !.names = r.names]
      /\ UNCHANGED <<nodes, next_inode_id, mounts, handles, devmgr, hung>>

\* the number of nodes these runs create
VariantBudget == MaxNodes - 2

NextVariant ==
  \/ InitDevices /\ UNCHANGED <<rt, thr, ld, bc>>
  \/ \E id \in DOMAIN nodes, n \in Names, t \in VNodeTypes :
        next_inode_id <= VariantBudget /\ DirCreate(id, n, t) /\ UNCHANGED <<rt, thr, ld, bc>>
  \/ \E id \in DOMAIN nodes :
        next_inode_id <= VariantBudget /\ DirCreateSymlink(id, <<"l">>, P_a)
          /\ UNCHANGED <<rt, thr, ld, bc>>
  \/ \E id \in DOMAIN nodes :
        next_inode_id <= VariantBudget /\ DirCreateDevice(id, <<"t">>, SerialDev)
          /\ UNCHANGED <<rt, thr, ld, bc>>
  \/ \E id \in DOMAIN nodes, n \in Names : DirLookup(id, n) /\ UNCHANGED <<rt, thr, ld, bc>>
  \/ \E id \in DOMAIN nodes, n \in Names : DirRemove(id, n) /\ UNCHANGED <<rt, thr, ld, bc>>
  \/ \E id \in DOMAIN nodes : DirRename(id, <<"a">>, <<"b">>) /\ UNCHANGED <<rt, thr, ld, bc>>
  \/ \E id \in DOMAIN nodes : NodeReadDirCall(id) /\ UNCHANGED <<rt, thr, ld, bc>>
  \/ \E id \in DOMAIN nodes : NodeReadSymlinkCall(id) /\ UNCHANGED <<rt, thr, ld, bc>>
  \/ \E id \in DOMAIN nodes :
        /\ Len(handles) < OpenBudget
        /\ \A i \in 1..Len(devmgr.devices) : devmgr.devices[i].open_count < OpenBudget
        /\ NodeOpenCall(id) /\ UNCHANGED <<rt, thr, ld, bc>>

SpecVariant == Init /\ [][NextVariant]_vars

DirOnlyOps == {"node_lookup", "node_create", "node_create_symlink", "node_create_device",
               "node_remove", "node_rename", "node_read_dir"}

\* the call left the tree, the open files and the devices as they were
NothingChanged == nodes' = nodes /\ handles' = handles /\ devmgr' = devmgr

\* what C24 says of every operation but create with an unsupported type
UnsupportedRejected ==
  LET v == nodes[last'.node].node_type
  IN  /\ (last'.op \in DirOnlyOps /\ v # "Dir") =>
            last'.res = ErrR("NotADirectory") /\ NothingChanged
      /\ (last'.op = "node_read_symlink" /\ v # "SymLink") =>
            last'.res = ErrR("NotAFile") /\ NothingChanged
      /\ (last'.op = "node_open" /\ v \in {"Dir", "SymLink"}) =>
            last'.res = ErrR("NotAFile") /\ NothingChanged

\* create(name, SymLink | Device) has been called on a directory
CreateUnsupportedType ==
  /\ last'.op = "node_create" /\ last'.typ \in {"SymLink", "Device"}
  /\ nodes[last'.node].node_type = "Dir"

\* C24 (as claimed): every node operation applied to a node variant that does not
\* support it returns an error and changes no state: lookup, create, create_symlink,
\* create_device, remove, rename and read_dir on a non-Dir node return NotADirectory;
\* read_symlink on a non-SymLink returns NotAFile; open on a Dir or SymLink returns
\* NotAFile; create with type SymLink or Device returns NotImplemented.
C24_UnsupportedOperationFails ==
  [][ /\ UnsupportedRejected
      /\ CreateUnsupportedType => last'.res = ErrR("NotImplemented") /\ NothingChanged ]_vars

\* C24 (amended): as above, but create with type SymLink or Device on a directory
\* returns NotImplemented only when the name is free; when the directory already has
\* an entry of that name it returns AlreadyExists. Nothing changes in either case.
C24_UnsupportedOperationFailsNameFirst ==
  [][ /\ UnsupportedRejected
      /\ CreateUnsupportedType =>
            /\ last'.res = IF ContainsKey(last'.node, last'.arg)
                           THEN ErrR("AlreadyExists") ELSE ErrR("NotImplemented")
            /\ NothingChanged ]_vars

\* create("b", SymLink) has just been refused on the root, which has a device node
\* "t" and no entry "b"
C24_Witness ==
  /\ last.op = "node_create" /\ last.node = ROOT /\ last.typ = "SymLink"
  /\ last.arg = <<"b">> /\ last.res = ErrR("NotImplemented")
  /\ ~ContainsKey(ROOT, <<"b">>)
  /\ ContainsKey(ROOT, <<"t">>) /\ nodes[GetEntry(ROOT, <<"t">>)].node_type = "Device"


----------------------------------------------------------------------------
(* load_cpio (kernel/src/libs/initrd.rs): an archive of parsed objects, each  *)
(* [name, mode, data], unpacked entry by entry under the VFS lock              *)

\* canonical_path and final_path of load_cpio
FinalPath(path) ==
  LET canonical == IF StartsWith(path, <<"/">>) THEN path
                   ELSE IF StartsWith(path, <<".", "/">>)
                        THEN <<"/">> \o SubSeq(path, 3, Len(path))
                        ELSE <<"/">> \o path
  IN  IF Len(canonical) > 1 /\ canonical[Len(canonical)] = "/"
      THEN TrimEnd(canonical, "/")
      ELSE canonical

RECURSIVE NonEmpty(_)
\* .filter(|&s| !s.is_empty())
NonEmpty(parts) ==
  IF parts = <<>> THEN <<>>
  ELSE (IF Head(parts) # <<>> THEN <<Head(parts)>> ELSE <<>>) \o NonEmpty(Tail(parts))

\* final_path.split('/').filter(|&s| !s.is_empty())
Components(final_path) == NonEmpty(Split(final_path, "/"))

RECURSIVE DirSegment(_, _)
\* current_dir_segment after the first k components have been pushed
DirSegment(components, k) ==
  IF k = 0 THEN <<>> ELSE DirSegment(components, k - 1) \o <<"/">> \o components[k]

\* mutant of LeftOnError: the tree is put back as load_cpio found it
LeftOnErrorRolledBack(ns) == ld.before

\* the tree load_cpio leaves when it returns Err(e): the one it has reached
LeftOnError(ns) == ns

\* load_cpio returns Err(e), or spins in a lookup that never returns
LoadFails(e) ==
  IF e.kind = "Hang"
  THEN /\ ld' = [ld EXCEPT !.pc = "hung", !.res = e]
       /\ hung' = TRUE
       /\ UNCHANGED <<nodes, next_inode_id>>
  ELSE /\ ld' = [ld EXCEPT !.pc = "done", !.res = e]
       /\ nodes' = LeftOnError(nodes)
       /\ UNCHANGED <<next_inode_id, hung>>

\* load_cpio(initrd_data) is called: VFS.lock(), the reader is at the first object
LoadCpio(archive) ==
  /\ ld.pc = "idle" /\ ~hung
  /\ ld' = [NotLoading EXCEPT !.pc = "entry", !.archive = archive, !.i = 1,
                              !.before = nodes]
  /\ UNCHANGED <<nodes, next_inode_id, mounts, handles, devmgr, last, hung>>

\* the head of `for obj_result in reader`: Ok(()) after the last object
LoadEntry ==
  /\ ld.pc = "entry"
  /\ ld' = IF ld.i > Len(ld.archive)
           THEN [ld EXCEPT !.pc = "done", !.res = OkR(0)]
           ELSE [ld EXCEPT !.pc = "component", !.k = 1]
  /\ UNCHANGED <<nodes, next_inode_id, mounts, handles, devmgr, last, hung>>

\* one turn of `for (i, component) in components.iter().enumerate()`
LoadComponent ==
  /\ ld.pc = "component"
  /\ LET obj == ld.archive[ld.i]
         components == Components(FinalPath(obj.name))
         seg == DirSegment(components, ld.k)
         found == VfsLookup(seg)
         made == VfsCreateDir(seg)
     IN  IF ld.k > Len(components)
         THEN /\ ld' = [ld EXCEPT !.pc = "object"]
              /\ UNCHANGED <<nodes, next_inode_id, hung>>
         ELSE IF ~(ld.k < Len(components) \/ obj.mode = "Dir")
         THEN /\ ld' = [ld EXCEPT !.k = @ + 1]
              /\ UNCHANGED <<nodes, next_inode_id, hung>>
         ELSE IF found.kind = "Ok"
         THEN IF nodes[found.val].node_type # "Dir"
              THEN LoadFails(ErrR("AlreadyExists"))
              ELSE /\ ld' = [ld EXCEPT !.k = @ + 1]
                   /\ UNCHANGED <<nodes, next_inode_id, hung>>
         ELSE IF found = ErrR("NotFound")
         THEN IF made.res.kind = "Ok"
              THEN /\ nodes' = made.nodes
                   /\ next_inode_id' = made.next
                   /\ ld' = [ld EXCEPT !.k = @ + 1, !.made = @ \cup {seg}]
                   /\ UNCHANGED hung
              ELSE LoadFails(made.res)
         ELSE LoadFails(found)
  /\ UNCHANGED <<mounts, handles, devmgr, last>>

\* `match node_type_mode`: the object itself, then the next object
LoadObject ==
  /\ ld.pc = "object"
  /\ LET obj == ld.archive[ld.i]
         final_path == FinalPath(obj.name)
         file == VfsCreateFile(final_path)
         link == VfsCreateSymlink(obj.data, final_path)
         next_entry == [ld EXCEPT !.pc = "entry", !.i = @ + 1]
     IN  IF obj.mode = "Reg"
         THEN IF file.res.kind = "Ok"
              THEN \* file_node.open()?.write(obj.data)?: at cursor 0 of the new file
                   /\ nodes' = [file.nodes EXCEPT ![file.res.val].data = obj.data]
                   /\ next_inode_id' = file.next
                   /\ ld' = [next_entry EXCEPT !.made = @ \cup {final_path}]
                   /\ UNCHANGED hung
              ELSE LoadFails(file.res)
         ELSE IF obj.mode = "Lnk"
         THEN IF link.res.kind = "Ok"
              THEN /\ nodes' = link.nodes
                   /\ next_inode_id' = link.next
                   /\ ld' = [next_entry EXCEPT !.made = @ \cup {final_path}]
                   /\ UNCHANGED hung
              ELSE LoadFails(link.res)
         ELSE /\ ld' = next_entry
              /\ UNCHANGED <<nodes, next_inode_id, hung>>
  /\ UNCHANGED <<mounts, handles, devmgr, last>>

\* the objects of the archives: names as cpio writes them, three modes
ObjectNames == {<<"a">>, <<"a", "/", "b">>, <<".", "/", "f">>, <<"/", "a", "/">>,
                <<"f", "/", "x">>}
Objects == [name : ObjectNames, mode : {"Dir", "Reg", "Lnk"}, data : {<<"/", "a">>}]
Archives == UNION {[1..n -> Objects] : n \in 0..MaxEntries}

NextCpio ==
  \/ \E archive \in Archives : LoadCpio(archive) /\ UNCHANGED <<rt, thr, bc>>
  \/ LoadEntry /\ UNCHANGED <<rt, thr, bc>>
  \/ LoadComponent /\ UNCHANGED <<rt, thr, bc>>
  \/ LoadObject /\ UNCHANGED <<rt, thr, bc>>

SpecCpio == Init /\ [][NextCpio]_vars

\* the paths of the objects and of their parent directories, for the first i objects
PathsOf(archive, i) ==
  UNION {{DirSegment(Components(FinalPath(archive[j].name)), k) :
            k \in 1..Len(Components(FinalPath(archive[j].name)))} : j \in 1..i}

\* C25: load_cpio is not transactional: when it fails at an archive entry or path
\* component it returns that first error at once, processes no further entry, and
\* every directory and file created for earlier components and entries stays in the
\* tree.
C25_LoadCpioKeepsEarlierEntries ==
  (ld.pc = "done" /\ ld.res.kind = "Err") =>
     /\ ld.i \in 1..Len(ld.archive)
     /\ \A p \in ld.made : PlainNode(p) # 0 /\ PlainNode(p) \notin DOMAIN ld.before
     /\ ld.made \subseteq PathsOf(ld.archive, ld.i)
     /\ Cardinality(DOMAIN nodes) = Cardinality(DOMAIN ld.before) + Cardinality(ld.made)
     /\ \A id \in DOMAIN ld.before : nodes[id].node_type = ld.before[id].node_type

\* the second object of an archive has failed on a component that the first object
\* made a file, after a directory was created for it
C25_Witness ==
  /\ ld.pc = "done" /\ ld.res = ErrR("AlreadyExists")
  /\ ld.i = 2
  /\ Cardinality(ld.made) >= 2
  /\ \E p \in ld.made : nodes[PlainNode(p)].node_type = "File"
  /\ \E p \in ld.made : nodes[PlainNode(p)].node_type = "Dir"


----------------------------------------------------------------------------
(* ".." at a mount point *)

UP == <<"/", ".", ".">>
X_UP_UP == <<"/", "x", "/", ".", ".", "/", ".", ".">>
P_mx == <<"/", "m", "/", "x">>

\* the paths that leave a mount point upwards
UpPaths == {mp \o up : mp \in {P_m, P_md}, up \in {UP, X_UP_UP}}

NextEscape ==
  \/ \E p \in {P_m, P_md, P_mx} : CreateDir(p) /\ UNCHANGED <<rt, thr, ld, bc>>
  \/ \E p \in {P_m, P_md} : Mount(p, "memfs") /\ UNCHANGED <<rt, thr, ld, bc>>
  \/ \E p \in UpPaths \cup {P_m, P_md} : Lookup(p) /\ UNCHANGED <<rt, thr, ld, bc>>

SpecEscape == Init /\ [][NextEscape]_vars

RECURSIVE Below(_, _)
\* the nodes within n entries of the nodes in s
Below(s, n) ==
  IF n = 0 THEN s
  ELSE Below(s \cup UNION {{e[2] : e \in nodes[id].entries} : id \in s}, n - 1)

\* the tree that hangs from node id
Subtree(id) == Below({id}, Cardinality(DOMAIN nodes))

\* C26: ".." is resolved by normalizing the string before the mount is chosen, so a
\* lookup of <mount point>/.. or <mount point>/x/../.. does not stop at the root of
\* the mounted tree: it returns what a lookup of the mount point's parent path
\* returns, a node outside the mounted tree.
C26_DotDotLeavesMount ==
  \A mp \in {P_m, P_md}, up \in {UP, X_UP_UP} :
    ( /\ last.op = "lookup" /\ last.path = mp \o up
      /\ \E i \in 1..Len(mounts) : mounts[i].path = TrimMatches(mp, "/") )
    => /\ last.res = VfsLookup(IF mp = P_m THEN P_root ELSE P_m)
       /\ last.res.kind = "Ok" =>
             \A i \in 1..Len(mounts) :
                mounts[i].path = TrimMatches(mp, "/") =>
                   last.res.val \notin Subtree(mounts[i].root)

\* with mounts at /m and /m/d, lookup("/m/d/x/../..") returned the root of the /m mount
C26_Witness ==
  /\ last.op = "lookup" /\ last.path = P_md \o X_UP_UP
  /\ \E i, j \in 1..Len(mounts) :
       /\ mounts[i].path = <<"m">> /\ mounts[j].path = S_md
       /\ last.res = OkR(mounts[i].root)


----------------------------------------------------------------------------
(* KernInode (kernel/src/fs/kernfs.rs): in these runs the heap holds the nodes *)
(* of a KernFs, node ROOT being the directory KernFs::new() made              *)

\* KernInode::create
KernCreate(id, name, typ) ==
  IF nodes[id].node_type # "Dir" THEN Same(ErrR("NotADirectory"))
  ELSE IF ContainsKey(id, name) THEN Same(ErrR("AlreadyExists"))
  ELSE IF typ = "Dir" THEN InsertNew(id, name, NewDir)
  ELSE IF typ = "File" THEN InsertNew(id, name, NewFile)
  ELSE Same(ErrR("NotImplemented"))

\* KernInode::unlink: map.remove(name).is_some()
KernUnlink(id, name) ==
  IF nodes[id].node_type # "Dir" THEN Same(ErrR("NotADirectory"))
  ELSE IF ContainsKey(id, name)
  THEN Out(OkR(0), [nodes EXCEPT ![id].entries = {e \in @ : e[1] # name}], next_inode_id)
  ELSE Same(ErrR("NotFound"))

KernCreateCall(id, name, typ) ==
  /\ next_inode_id <= MaxNodes
  /\ NodeCall("kern_create", id, name, typ, KernCreate(id, name, typ))

KernUnlinkCall(id, name) == NodeCall("kern_unlink", id, name, "None", KernUnlink(id, name))

NextKern ==
  \/ \E id \in DOMAIN nodes, n \in Names, t \in VNodeTypes :
        next_inode_id <= NodeBudget /\ KernCreateCall(id, n, t) /\ UNCHANGED <<rt, thr, ld, bc>>
  \/ \E id \in DOMAIN nodes, n \in Names : KernUnlinkCall(id, n) /\ UNCHANGED <<rt, thr, ld, bc>>

SpecKern == Init /\ [][NextKern]_vars

\* C27: KernInode.unlink(name) on a directory fails with DirectoryNotEmpty, leaving
\* the entry in place, when name refers to a directory that still has entries;
\* otherwise it removes the entry, and it returns NotFound when name is absent.
C27_UnlinkKeepsNonEmptyDirectory ==
  [][ (last'.op = "kern_unlink" /\ nodes[last'.node].node_type = "Dir") =>
        LET d == last'.node
            name == last'.arg
        IN  IF ~ContainsKey(d, name)
            THEN last'.res = ErrR("NotFound") /\ nodes' = nodes
            ELSE IF nodes[GetEntry(d, name)].node_type = "Dir"
                    /\ nodes[GetEntry(d, name)].entries # {}
            THEN last'.res = ErrR("DirectoryNotEmpty") /\ nodes' = nodes
            ELSE /\ last'.res.kind = "Ok"
                 /\ nodes'[d].entries = {e \in nodes[d].entries : e[1] # name} ]_vars


----------------------------------------------------------------------------
(* A lookup that waits for itself *)

\* C28: every Vfs.lookup call made while no other operation is in flight returns: in
\* particular, when it resolves a symlink with a non-root target, met anywhere in the
\* walked path, it never waits for the mount-table spin lock while the same call holds
\* that lock (a wait that cannot end, no other thread being there to release it).
C28_LookupNeverWaitsForOwnLock ==
  \A t \in Threads :
    (thr[t].op = "lookup" /\ \A u \in Threads \ {t} : thr[u].pc = "idle")
      => ~(thr[t].pc = "ptv_lock" /\ MOUNTS \in thr[t].held)


----------------------------------------------------------------------------
(* A mount at /m and its sibling /m2 *)

P_m2 == <<"/", "m", "2">>
P_m_2 == <<"/", "m", "/", "2">>
P_m2x == <<"/", "m", "2", "/", "x">>

NextSibling ==
  \/ \E p \in {P_m, P_m2, P_m_2, P_m2x} : CreateDir(p) /\ UNCHANGED <<rt, thr, ld, bc>>
  \/ Mount(P_m, "memfs") /\ UNCHANGED <<rt, thr, ld, bc>>
  \/ \E p \in {P_m, P_m2, P_m_2, P_m2x} : Lookup(p) /\ UNCHANGED <<rt, thr, ld, bc>>

SpecSibling == Init /\ [][NextSibling]_vars

\* what walking the components from node id returns when no mount is involved
WalkFrom(id, comps) ==
  IF PlainWalk(id, comps) # 0 THEN OkR(PlainWalk(id, comps))
  ELSE IF \E k \in 0..(Len(comps) - 1) :
            /\ PlainWalk(id, SubSeq(comps, 1, k)) # 0
            /\ nodes[PlainWalk(id, SubSeq(comps, 1, k))].node_type # "Dir"
            /\ \A j \in 0..(k - 1) : PlainWalk(id, SubSeq(comps, 1, j)) # 0
       THEN ErrR("NotADirectory")
       ELSE ErrR("NotFound")

\* C29: a mount captures only the paths it prefixes at a component boundary: with a
\* mount at /m, lookups of /m and /m/<rest> go to the mount's root, while a lookup of
\* a sibling whose name merely starts with the same characters (/m2, /m2/x) is
\* resolved from the global root and never inside the tree of the /m mount.
C29_MountMatchesWholeComponents ==
  (last.op = "lookup" /\ \E i \in 1..Len(mounts) : mounts[i].path = <<"m">>) =>
     LET i == CHOOSE k \in 1..Len(mounts) :
                 mounts[k].path = <<"m">> /\ \A j \in 1..Len(mounts) : j <= k
     IN  /\ last.path = P_m => last.res = OkR(mounts[i].root)
         /\ last.path = P_m_2 => last.res = WalkFrom(mounts[i].root, <<<<"2">>>>)
         /\ last.path = P_m2 => last.res = WalkFrom(ROOT, <<<<"m", "2">>>>)
         /\ last.path = P_m2x => last.res = WalkFrom(ROOT, <<<<"m", "2">>, <<"x">>>>)


----------------------------------------------------------------------------
(* Mount points spelled with an empty segment, a "." segment or a trailing slash *)

P_a_b == <<"/", "a", "/", "/", "b">>
P_a_dot_b == <<"/", "a", "/", ".", "/", "b">>
P_ab_slash == <<"/", "a", "/", "b", "/">>

Spellings == {P_ab, P_a_b, P_a_dot_b, P_ab_slash}

NextSpelling ==
  \/ \E p \in {P_a, P_ab} : CreateDir(p) /\ UNCHANGED <<rt, thr, ld, bc>>
  \/ \E p \in Spellings : Mount(p, "memfs") /\ UNCHANGED <<rt, thr, ld, bc>>
  \/ \E p \in Spellings : Lookup(p) /\ UNCHANGED <<rt, thr, ld, bc>>

SpecSpelling == Init /\ [][NextSpelling]_vars

\* the form path resolution compares against: normalized, without the slashes around it
Compared(path) == TrimMatches(NormalizePath(path), "/")

\* C30: after a successful mount(mount_point), lookup(mount_point) returns the root of
\* the newly mounted filesystem, and every prefix stored in the mount table is in the
\* normalized form that path resolution compares against (no empty, "." or ".."
\* segment, no leading or trailing slash), for every spelling that mount accepts.
C30_MountPointStoredNormalized ==
  /\ \A i \in 1..Len(mounts) : mounts[i].path = Compared(<<"/">> \o mounts[i].path)
  /\ (last.op = "mount" /\ last.res.kind = "Ok") =>
        VfsLookup(last.path) = OkR(mounts[Len(mounts)].root)


\* C31: when several entries of the mount table with the same prefix length match a
\* path (the same mount point mounted more than once), the one registered last is
\* used: a later mount shadows an earlier one at the same mount point, and what a
\* lookup returns is decided by the sequence of mounts alone.
C31_LaterMountShadowsEarlier ==
  ( /\ last.op = "lookup"
    /\ mounts # <<>>
    /\ \A i \in 1..Len(mounts) : mounts[i].path = <<"m">> ) =>
     LET latest == mounts[Len(mounts)].root
     IN  /\ last.path = P_m => last.res = OkR(latest)
         /\ last.path = P_m_2 => last.res = WalkFrom(latest, <<<<"2">>>>)

\* /m was mounted twice; the first mount holds a directory "2", the second does not,
\* and the lookup of /m/2 did not find it
C31_Witness ==
  /\ last.op = "lookup" /\ last.path = P_m_2
  /\ Len(mounts) = 2
  /\ mounts[1].path = <<"m">> /\ mounts[2].path = <<"m">>
  /\ ContainsKey(mounts[1].root, <<"2">>)
  /\ last.res = ErrR("NotFound")


----------------------------------------------------------------------------
(* The directory graph under rename and rename_move *)

\* the nodes strictly below node id
Descendants(id) ==
  Below({e[2] : e \in nodes[id].entries}, Cardinality(DOMAIN nodes))

\* C32: after any sequence of create, rename and rename_move calls the directory graph
\* is a tree rooted at the root: no directory is its own descendant, and a successful
\* rename_move leaves every node reachable from the root, also when a directory is
\* moved to a path underneath itself.  (No call of these runs removes an entry, so
\* every node that was made was reachable before the move.)
C32_DirectoryGraphStaysTree ==
  /\ \A d \in DOMAIN nodes : d \notin Descendants(d)
  /\ (last.op = "rename_move" /\ last.res.kind = "Ok") =>
        \A id \in DOMAIN nodes : id \in Subtree(ROOT)


----------------------------------------------------------------------------
(* MemVNode::move_node, one lock section at a time (kernel/src/fs/memfs.rs) *)

\* a step of thread t in move_node: the thread and the tree
MoveStep(t, new, ns) ==
  /\ thr' = [thr EXCEPT ![t] = new]
  /\ nodes' = ns
  /\ UNCHANGED <<next_inode_id, mounts, handles, devmgr, last, hung, rt, ld, bc>>

\* move_node is called: the two matches on the content of the parents
MoveNodeCall(t, source_parent, target_parent, old_name, new_name) ==
  /\ thr[t].pc = "idle"
  /\ LET c == [Idle EXCEPT !.op = "move_node",
                           !.mv = [NoMove EXCEPT !.src = source_parent, !.dst = target_parent,
                                                 !.old = old_name, !.new = new_name]]
     IN  IF nodes[source_parent].node_type # "Dir" \/ nodes[target_parent].node_type # "Dir"
         THEN MoveStep(t, [c EXCEPT !.pc = "return", !.res = ErrR("NotADirectory")], nodes)
         ELSE MoveStep(t, [c EXCEPT !.pc = "mv_get"], nodes)

\* { source_entries.read().get(old_name).ok_or(NotFound)?.clone() }
MoveGet(t) ==
  /\ thr[t].pc = "mv_get"
  /\ LET m == thr[t].mv
     IN  IF ~ContainsKey(m.src, m.old)
         THEN MoveStep(t, [thr[t] EXCEPT !.pc = "return", !.res = ErrR("NotFound")], nodes)
         ELSE MoveStep(t, [thr[t] EXCEPT !.pc = "mv_check",
                                         !.mv.node = GetEntry(m.src, m.old)], nodes)

\* { if target_entries.read().contains_key(new_name) { return Err(AlreadyExists) } }
MoveCheck(t) ==
  /\ thr[t].pc = "mv_check"
  /\ LET m == thr[t].mv
     IN  IF ContainsKey(m.dst, m.new)
         THEN MoveStep(t, [thr[t] EXCEPT !.pc = "return", !.res = ErrR("AlreadyExists")], nodes)
         ELSE MoveStep(t, [thr[t] EXCEPT !.pc = "mv_remove"], nodes)

\* { source_entries.write().remove(old_name); }: whatever old_name names now goes
MoveRemove(t) ==
  /\ thr[t].pc = "mv_remove"
  /\ LET m == thr[t].mv
     IN  MoveStep(t, [thr[t] EXCEPT !.pc = "mv_insert"],
                  [nodes EXCEPT ![m.src].entries = {e \in @ : e[1] # m.old}])

\* { target_entries.write().insert(new_name, node_to_move); } Ok(()): BTreeMap::insert
\* replaces the value of a key that is present
MoveInsert(t) ==
  /\ thr[t].pc = "mv_insert"
  /\ LET m == thr[t].mv
     IN  MoveStep(t, [thr[t] EXCEPT !.pc = "return", !.res = OkR(0)],
                  [nodes EXCEPT ![m.dst].entries =
                     {e \in @ : e[1] # m.new} \cup {<<m.new, m.node>>}])

MoveNames == {<<"f">>, <<"g">>}

\* the number of nodes the runs of move_node create
MoveBudget == MaxNodes - 2

\* The calls other threads make while a move_node runs are the ones that change a
\* directory: a create, remove or rename that fails leaves the tree as it is.
NextMove ==
  \/ \E p \in {P_a, P_f} :
        /\ \A t \in Threads : thr[t].pc = "idle"
        /\ next_inode_id <= MoveBudget
        /\ (IF p = P_a THEN CreateDir(p) ELSE CreateFile(p))
        /\ UNCHANGED <<rt, thr, ld, bc>>
  \/ \E id \in DOMAIN nodes, n \in MoveNames :
        /\ next_inode_id <= MoveBudget + 1
        /\ NodeCreate(id, n, "File").res.kind = "Ok"
        /\ DirCreate(id, n, "File") /\ UNCHANGED <<rt, thr, ld, bc>>
  \/ \E id \in DOMAIN nodes, n \in MoveNames :
        /\ NodeRemove(id, n).res.kind = "Ok"
        /\ DirRemove(id, n) /\ UNCHANGED <<rt, thr, ld, bc>>
  \/ \E id \in DOMAIN nodes, o \in MoveNames, n \in MoveNames :
        /\ NodeRename(id, o, n).res.kind = "Ok"
        /\ DirRename(id, o, n) /\ UNCHANGED <<rt, thr, ld, bc>>
  \/ \E t \in Threads, d \in DOMAIN nodes, n \in MoveNames :
        d # ROOT /\ MoveNodeCall(t, ROOT, d, <<"f">>, n)
  \/ \E t \in Threads : MoveGet(t)
  \/ \E t \in Threads : MoveCheck(t)
  \/ \E t \in Threads : MoveRemove(t)
  \/ \E t \in Threads : MoveInsert(t)
  \/ \E t \in Threads : Return(t)

SpecMove == Init /\ [][NextMove]_vars

\* C33: move_node is atomic with respect to concurrent operations on the two
\* directories: a move_node that returns Ok never overwrites an entry that another
\* operation put under new_name in the target directory, never inserts into the target
\* a node that a concurrent remove or move already took out of the source, and when it
\* returns the moved node is in the target and not in the source.
C33_MoveNodeAtomic ==
  [][ \A t \in Threads :
        LET m == thr[t].mv
        IN  /\ (thr[t].pc = "mv_remove" /\ thr'[t].pc = "mv_insert") =>
                  <<m.old, m.node>> \in nodes[m.src].entries
            /\ (thr[t].pc = "mv_insert" /\ thr'[t].pc = "return") =>
                  /\ ~ContainsKey(m.dst, m.new)
                  /\ <<m.new, m.node>> \in nodes'[m.dst].entries
                  /\ \A e \in nodes'[m.src].entries : e[2] # m.node ]_vars


----------------------------------------------------------------------------
(* Vfs::mount next to MemVNode::create_device: DEVICE_MANAGER and the entries of a
   directory *)

\* parent.create_device(name, major, minor, device_type) is called on directory id
CreateDeviceCall(t, id, name, dev) ==
  /\ thr[t].pc = "idle"
  /\ next_inode_id <= MaxNodes
  /\ IF nodes[id].node_type # "Dir"
     THEN ThreadStep(t, [Idle EXCEPT !.pc = "return", !.op = "create_device",
                                     !.res = ErrR("NotADirectory")])
     ELSE ThreadStep(t, [Idle EXCEPT !.pc = "cd_entries", !.op = "create_device",
                                     !.dir = id, !.name = name, !.dev = dev])

\* let mut entries_write = entries.write(); the contains_key check under it
CreateDeviceLockEntries(t) ==
  /\ thr[t].pc = "cd_entries"
  /\ EntriesFree(t, thr[t].dir)
  /\ IF ContainsKey(thr[t].dir, thr[t].name)
     THEN ThreadStep(t, [thr[t] EXCEPT !.pc = "return", !.res = ErrR("AlreadyExists")])
     ELSE ThreadStep(t, [thr[t] EXCEPT !.pc = "cd_devmgr", !.wlock = thr[t].dir])

\* let device_manager = DEVICE_MANAGER.lock(), with the write guard of the entries
\* held; get_device_by_major_minor; drop(device_manager); the insert; the return,
\* which drops the write guard
CreateDeviceLockDeviceManager(t) ==
  /\ thr[t].pc = "cd_devmgr"
  /\ Free(DEVMGR)
  /\ LET out == NodeCreateDevice(thr[t].dir, thr[t].name,
                                 thr[t].dev.major, thr[t].dev.minor, thr[t].dev.dtype)
     IN  /\ thr' = [thr EXCEPT ![t] = [@ EXCEPT !.pc = "return", !.res = out.res, !.wlock = 0]]
         /\ nodes' = out.nodes
         /\ next_inode_id' = out.next
         /\ UNCHANGED <<mounts, handles, devmgr, last, hung, rt, ld, bc>>

P_d == <<"d">>

NextLockOrder ==
  \/ (\A t \in Threads : thr[t].pc = "idle") /\ CreateDir(P_a) /\ UNCHANGED <<rt, thr, ld, bc>>
  \/ (\A t \in Threads : thr[t].pc = "idle") /\ InitDevices /\ UNCHANGED <<rt, thr, ld, bc>>
  \/ \E t \in Threads : MountCall(t, P_am, "memfs")
  \/ \E t \in Threads, id \in Subtree(ROOT), k \in {1, 2} :
        CreateDeviceCall(t, id, P_d, [major |-> k, minor |-> 0, dtype |-> "Char"])
  \/ \E t \in Threads : CreateDeviceLockEntries(t)
  \/ \E t \in Threads : CreateDeviceLockDeviceManager(t)
  \/ \E t \in Threads : PtvEnter(t)
  \/ \E t \in Threads : PtvLock(t)
  \/ \E t \in Threads : PtvStep(t)
  \/ \E t \in Threads : PtvResolve(t)
  \/ \E t \in Threads : PtvRet(t)
  \/ \E t \in Threads : MountRegistry(t)
  \/ \E t \in Threads : MountLockDeviceManager(t)
  \/ \E t \in Threads : MountFs(t)
  \/ \E t \in Threads : MountParent(t)
  \/ \E t \in Threads : MountNormalize(t)
  \/ \E t \in Threads : MountPush(t)
  \/ \E t \in Threads : Return(t)

SpecLockOrder == Init /\ [][NextLockOrder]_vars

\* thread t is in Vfs::mount, holds DEVICE_MANAGER, and its next step is the lookup of
\* a component in directory id
MountWaitsForEntries(t, id) ==
  /\ thr[t].op = "mount" /\ DEVMGR \in thr[t].held
  /\ thr[t].pc = "ptv_walk"
  /\ Top(t).pending = 0
  /\ Top(t).comps # <<>> /\ Head(Top(t).comps) \notin {<<>>, DOT}
  /\ Top(t).current = id

\* C34: concurrent Vfs::mount and create_device calls cannot deadlock: in no reachable
\* state does one thread hold the Device Manager lock and wait for the entries of a
\* directory (mount resolving its parent path) while another thread holds the write
\* guard of these entries and waits for the Device Manager lock (create_device checking
\* that the device exists).
C34_MountAndCreateDeviceNoDeadlock ==
  \A t \in Threads, u \in Threads :
     ~( /\ t # u
        /\ thr[u].op = "create_device" /\ thr[u].pc = "cd_devmgr"
        /\ MountWaitsForEntries(t, thr[u].wlock) )


----------------------------------------------------------------------------
(* Vfs::walk (kernel/src/fs/vfs.rs) *)

\* the characters of the paths in byte order
ByteOrder == <<".", "/", "2", "a", "b", "c", "d", "f", "g", "l", "m", "t", "x", "y">>

Byte(c) == CHOOSE i \in 1..Len(ByteOrder) : ByteOrder[i] = c

RECURSIVE StrLess(_, _)
\* a < b for two strings (Ord for str: byte by byte, a proper prefix first)
StrLess(a, b) ==
  IF b = <<>> THEN FALSE
  ELSE IF a = <<>> THEN TRUE
  ELSE IF Head(a) # Head(b) THEN Byte(Head(a)) < Byte(Head(b))
  ELSE StrLess(Tail(a), Tail(b))

RECURSIVE SortDescending(_)
\* subdirs_to_visit.sort_unstable_by(|a, b| b.cmp(a)) of a set of different strings
SortDescending(set) ==
  IF set = {} THEN <<>>
  ELSE LET m == CHOOSE x \in set : \A y \in set \ {x} : StrLess(y, x)
       IN  <<m>> \o SortDescending(set \ {m})

\* format!("/{}", entry_name) under the root, format!("{}/{}", current_dir_path, entry_name)
EntryPath(current_dir_path, entry_name) ==
  IF current_dir_path = <<"/">> THEN <<"/">> \o entry_name
  ELSE current_dir_path \o <<"/">> \o entry_name

\* walk(start_path) is called: the normalized start path is pushed
WalkCall(t, start_path) ==
  /\ thr[t].pc = "idle"
  /\ ThreadStep(t, [Idle EXCEPT !.pc = "walk_loop", !.op = "walk", !.path = start_path,
                                !.todo = <<NormalizePath(start_path)>>])

\* one turn of `while let Some(current_dir_path) = stack.pop()`, or the return after
\* the loop.  A lookup that never returns leaves the thread in the loop for ever.
WalkLoop(t) ==
  /\ thr[t].pc = "walk_loop"
  /\ \A i \in 1..Len(thr[t].todo) : Len(thr[t].todo[i]) <= MaxPathLen
  /\ IF thr[t].todo = <<>>
     THEN ThreadStep(t, [thr[t] EXCEPT !.pc = "return", !.res = OkR(0)])
     ELSE
       LET cur == thr[t].todo[Len(thr[t].todo)]
           rest == SubSeq(thr[t].todo, 1, Len(thr[t].todo) - 1)
           current_vnode == VfsLookup(cur)
           names == NodeReadDir(current_vnode.val).names
           entry(n) == VfsLookup(EntryPath(cur, n))
           stops == {n \in names :
                       entry(n).kind # "Ok" /\ entry(n) # ErrR("NotFound")}
           first == CHOOSE n \in stops : \A o \in stops \ {n} : StrLess(n, o)
           dirnames == {n \in names :
                          entry(n).kind = "Ok" /\ nodes[entry(n).val].node_type = "Dir"}
           filenames == {n \in names :
                           entry(n).kind = "Ok" /\ nodes[entry(n).val].node_type # "Dir"}
       IN  IF current_vnode.kind = "Hang"
           THEN ThreadStep(t, [thr[t] EXCEPT !.pc = "walk_spin", !.todo = rest])
           ELSE IF current_vnode.kind # "Ok"
           THEN ThreadStep(t, [thr[t] EXCEPT !.pc = "return", !.res = current_vnode])
           ELSE IF nodes[current_vnode.val].node_type # "Dir"
           THEN ThreadStep(t, [thr[t] EXCEPT !.todo = rest])
           ELSE IF stops # {} /\ entry(first).kind = "Hang"
           THEN ThreadStep(t, [thr[t] EXCEPT !.pc = "walk_spin", !.todo = rest])
           ELSE IF stops # {}
           THEN ThreadStep(t, [thr[t] EXCEPT !.pc = "return", !.res = entry(first)])
           ELSE ThreadStep(t, [thr[t] EXCEPT
                  !.results = Append(@, [path |-> cur, dirnames |-> dirnames,
                                         filenames |-> filenames]),
                  !.todo = rest \o SortDescending({EntryPath(cur, n) : n \in dirnames})])

P_al == <<"/", "a", "/", "l">>

\* the number of nodes the walked trees have besides the root
WalkTreeBudget == MaxNodes - 2

NextWalkTree ==
  \/ \E p \in {P_a, P_ab} :
        /\ \A t \in Threads : thr[t].pc = "idle"
        /\ next_inode_id <= WalkTreeBudget
        /\ CreateDir(p) /\ UNCHANGED <<rt, thr, ld, bc>>
  \/ /\ \A t \in Threads : thr[t].pc = "idle"
     /\ next_inode_id <= WalkTreeBudget
     /\ CreateFile(P_f) /\ UNCHANGED <<rt, thr, ld, bc>>
  \/ \E target \in {P_root, P_a, P_ab}, link \in {P_l, P_al} :
        /\ \A t \in Threads : thr[t].pc = "idle"
        /\ next_inode_id <= WalkTreeBudget
        /\ CreateSymlink(target, link) /\ UNCHANGED <<rt, thr, ld, bc>>
  \/ \E t \in Threads, p \in {P_root, P_a} : WalkCall(t, p)
  \/ \E t \in Threads : WalkLoop(t)
  \/ \E t \in Threads : Return(t)

SpecWalkTree == Init /\ [][NextWalkTree]_vars

\* C35: walk(start) terminates on every finite tree and reports each directory at most
\* once, also when the tree holds a symlink to the root or to one of its own ancestor
\* directories: no step of the walk waits for ever, and no two of its results are the
\* same directory.
C35_WalkReportsEachDirectoryOnce ==
  \A t \in Threads :
    thr[t].op = "walk" =>
      /\ thr[t].pc # "walk_spin"
      /\ \A i \in 1..Len(thr[t].results), j \in 1..Len(thr[t].results) :
            i < j => VfsLookup(thr[t].results[i].path) # VfsLookup(thr[t].results[j].path)


----------------------------------------------------------------------------
(* Device numbers and open counts (kernel/src/drivers/device.rs) *)

\* C36: after any sequence of register_device and unregister_device calls that mixes
\* manually numbered and auto-numbered devices, no two registered devices have the
\* same (major, minor) pair and no two have the same name.
C36_DeviceNumbersUnique ==
  \A i \in 1..Len(devmgr.devices), j \in 1..Len(devmgr.devices) :
     i # j =>
       /\ devmgr.devices[i].name # devmgr.devices[j].name
       /\ ~( /\ devmgr.devices[i].major = devmgr.devices[j].major
             /\ devmgr.devices[i].minor = devmgr.devices[j].minor )


\* usize::MAX as a residue modulo 2^64
USIZE_MAX == 0 - 1

\* Device::open on the registered device at index i: [res, dm, drv].
\* fetch_add(1) returns the count before it; the driver's open returns Ok(())
DeviceOpenOp(dm, i) ==
  LET current_count == dm.devices[i].open_count
  IN  [res |-> OkR(0),
       dm |-> [dm EXCEPT !.devices[i].open_count =
                 IF current_count = USIZE_MAX THEN 0 ELSE current_count + 1],
       drv |-> IF current_count = 0 THEN "open" ELSE "none"]

\* Device::close on the registered device at index i: [res, dm, drv].
\* fetch_sub(1) wraps and returns the count before it
DeviceCloseOp(dm, i) ==
  LET current_count == dm.devices[i].open_count
      after == [dm EXCEPT !.devices[i].open_count =
                  IF current_count = 0 THEN USIZE_MAX ELSE current_count - 1]
  IN  IF current_count = 1 THEN [res |-> OkR(0), dm |-> after, drv |-> "close"]
      ELSE IF current_count = 0 THEN [res |-> ErrR("NotOpen"), dm |-> after, drv |-> "none"]
      ELSE [res |-> OkR(0), dm |-> after, drv |-> "none"]

\* a call of open() or close() on a registered device
OpenCountCall(op, i, r) ==
  /\ ~hung
  /\ devmgr' = r.dm
  /\ last' = [NoCall EXCEPT !.op = op, !.io = i, !.res = r.res, !.drv = r.drv]
  /\ UNCHANGED <<nodes, next_inode_id, mounts, handles, hung>>

DeviceOpen(i) ==
  /\ devmgr.devices[i].open_count < MaxHandles
  /\ OpenCountCall("device_open", i, DeviceOpenOp(devmgr, i))

DeviceClose(i) ==
  /\ devmgr.devices[i].open_count > 0 - MaxHandles
  /\ OpenCountCall("device_close", i, DeviceCloseOp(devmgr, i))

NextOpenCount ==
  \/ \E d \in {SerialDev, TtyDev} :
        /\ \A e \in devmgr.free_minors : Len(e[2]) < OpenBudget
        /\ RegisterDevice(d) /\ UNCHANGED <<rt, thr, ld, bc>>
  \/ \E d \in {SerialDev, TtyDev} : UnregisterDevice(d.name) /\ UNCHANGED <<rt, thr, ld, bc>>
  \/ \E i \in 1..Len(devmgr.devices) : DeviceOpen(i) /\ UNCHANGED <<rt, thr, ld, bc>>
  \/ \E i \in 1..Len(devmgr.devices) : DeviceClose(i) /\ UNCHANGED <<rt, thr, ld, bc>>

SpecOpenCount == Init /\ [][NextOpenCount]_vars

\* C37: the open count of a registered device is the number of successful open() calls
\* minus the number of successful close() calls: a successful open adds one, a
\* successful close takes one off, close() on a count of 0 returns NotOpen and leaves
\* the count at 0 (is_open stays false, the device can still be unregistered), and the
\* driver's own open and close are called only on the steps 0 -> 1 and 1 -> 0.
C37_OpenCountBalanced ==
  [][ last'.op \in {"device_open", "device_close"} =>
        LET before == devmgr.devices[last'.io].open_count
            after == devmgr'.devices[last'.io].open_count
        IN  IF last'.op = "device_open"
            THEN /\ last'.res.kind = "Ok"
                 /\ after = before + 1
                 /\ (last'.drv = "open") = (before = 0)
            ELSE IF before = 0
            THEN /\ last'.res = ErrR("NotOpen")
                 /\ after = 0
                 /\ ~IsOpen(devmgr'.devices[last'.io])
                 /\ last'.drv = "none"
            ELSE /\ last'.res.kind = "Ok"
                 /\ after = before - 1
                 /\ (last'.drv = "close") = (before = 1) ]_vars


----------------------------------------------------------------------------
(* BlockCache (kernel/src/fs/bio.rs) *)

\* a step of thread t in read_block or write_block: the thread and the cache
BlockStep(t, new, b) ==
  /\ thr' = [thr EXCEPT ![t] = new]
  /\ bc' = b
  /\ UNCHANGED <<nodes, next_inode_id, mounts, handles, devmgr, last, hung, rt, ld>>

\* cache.insert(block_id, data)
CacheInsert(cache, block_id, data) ==
  {e \in cache : e[1] # block_id} \cup {<<block_id, data>>}

ReadBlockCall(t, block_id) ==
  /\ thr[t].pc = "idle"
  /\ BlockStep(t, [Idle EXCEPT !.pc = "rb_cache", !.op = "read_block",
                               !.block_id = block_id], bc)

\* { let cache = self.cache.read(); if let Some(data) = cache.get(&block_id) { return } }
ReadBlockCache(t) ==
  /\ thr[t].pc = "rb_cache"
  /\ IF \E e \in bc.cache : e[1] = thr[t].block_id
     THEN BlockStep(t, [thr[t] EXCEPT !.pc = "return",
                          !.buf = (CHOOSE e \in bc.cache : e[1] = thr[t].block_id)[2]], bc)
     ELSE BlockStep(t, [thr[t] EXCEPT !.pc = "rb_device"], bc)

\* self.device.read_block(block_id, &mut buf): Ok with the bytes of the device, or an
\* error, on which read_block returns None
ReadBlockDevice(t, ok) ==
  /\ thr[t].pc = "rb_device"
  /\ IF ok
     THEN BlockStep(t, [thr[t] EXCEPT !.pc = "rb_insert",
                                      !.buf = bc.device[thr[t].block_id]], bc)
     ELSE BlockStep(t, [thr[t] EXCEPT !.pc = "return", !.res = ErrR("None")], bc)

\* self.cache.write().insert(block_id, buf.clone()); Some(buf)
ReadBlockInsert(t) ==
  /\ thr[t].pc = "rb_insert"
  /\ BlockStep(t, [thr[t] EXCEPT !.pc = "return"],
               [bc EXCEPT !.cache = CacheInsert(@, thr[t].block_id, thr[t].buf)])

WriteBlockCall(t, block_id, data) ==
  /\ thr[t].pc = "idle"
  /\ BlockStep(t, [Idle EXCEPT !.pc = "wb_device", !.op = "write_block",
                               !.block_id = block_id, !.buf = data], bc)

\* self.device.write_block(block_id, data): Ok, or an error, on which write_block
\* returns false
WriteBlockDevice(t, ok) ==
  /\ thr[t].pc = "wb_device"
  /\ IF ok
     THEN BlockStep(t, [thr[t] EXCEPT !.pc = "wb_insert"],
                    [bc EXCEPT !.device[thr[t].block_id] = thr[t].buf])
     ELSE BlockStep(t, [thr[t] EXCEPT !.pc = "return", !.res = ErrR("false")], bc)

\* self.cache.write().insert(block_id, data.to_vec()); true
WriteBlockInsert(t) ==
  /\ thr[t].pc = "wb_insert"
  /\ BlockStep(t, [thr[t] EXCEPT !.pc = "return"],
               [bc EXCEPT !.cache = CacheInsert(@, thr[t].block_id, thr[t].buf)])

NextBlockCache ==
  \/ \E t \in Threads, b \in BlockIds : ReadBlockCall(t, b)
  \/ \E t \in Threads : ReadBlockCache(t)
  \/ \E t \in Threads, ok \in BOOLEAN : ReadBlockDevice(t, ok)
  \/ \E t \in Threads : ReadBlockInsert(t)
  \/ \E t \in Threads, b \in BlockIds, d \in BlockValues : WriteBlockCall(t, b, d)
  \/ \E t \in Threads, ok \in BOOLEAN : WriteBlockDevice(t, ok)
  \/ \E t \in Threads : WriteBlockInsert(t)
  \/ \E t \in Threads : Return(t)

SpecBlockCache == Init /\ [][NextBlockCache]_vars

\* C38: BlockCache stays coherent with its device under any interleaving of read_block
\* and write_block calls: whenever no call is in flight, every cached block holds the
\* bytes of the last successful device write to that block (the device's content if it
\* was never written); and a failed device write leaves the cache unchanged.
C38_BlockCacheCoherent ==
  /\ []( (\A t \in Threads : thr[t].pc = "idle") =>
            \A e \in bc.cache : e[2] = bc.device[e[1]] )
  /\ [][ \A t \in Threads :
           (thr[t].pc = "wb_device" /\ thr'[t].res = ErrR("false")) =>
              bc'.cache = bc.cache ]_vars


====
